---- MODULE Spec2Model ----
(***************************************************************************)
(* EthiQuest: the decision engine (app/core/game/game_logic.py), the       *)
(* decision endpoint (app/api/endpoints/scenarios.py) and the pattern      *)
(* analyzer (app/core/analytics/pattern_analyzer.py).                      *)
(*                                                                         *)
(* Numbers.  Python floats are modelled as exact fixed-point integers in   *)
(* units of 1/SCALE.  With integer raw impacts and difficulties that are   *)
(* multiples of 1/2, every product the engine forms on the stakeholder,    *)
(* reputation and market-share path is a whole number of these units, so   *)
(* no rounding happens there.  Money (financial_resources and the          *)
(* 'financial' impact) is kept in whole currency units.                    *)
(*                                                                         *)
(* Objects.  A GameState holds its scalar fields by value and its three    *)
(* containers (stakeholder_satisfaction, ongoing_events, metadata) by      *)
(* reference into `heap`, the way Python objects do.  The GameState class  *)
(* (app/core/models/game_state.py) is not among the sources: its copy()    *)
(* and the default of its metadata field follow the specification, which   *)
(* has the State Mutator produce a new snapshot that no holder of the      *)
(* prior state can observe.                                                *)
(***************************************************************************)
EXTENDS Integers, Sequences, FiniteSets, TLC

(* ------------------------------ bounds -------------------------------- *)

\* process_decision calls in one behaviour
MaxCalls == 3

\* calls in one behaviour of the endpoint's specification
MaxRequests == 2

\* decisions in a player's history
MaxHistory == 5

\* analyze_patterns calls in one behaviour
MaxAnalyses == 2

\* submit_decision requests in flight for one player and one scenario
MaxInFlight == 2

\* decisions in a history a helper of the analyzer is called on directly
MaxHelperHistory == 3

\* decisions in a history _calculate_learning_rate is called on
MaxLearningHistory == 11

\* rate limit checks in one behaviour, and the seconds the clock runs
MaxChecks == 4

MaxSeconds == 3

\* generate_scenario calls in one behaviour
MaxGenerations == 2

(* --------------------- configuration and constants -------------------- *)

\* fixed-point units per 1.0
SCALE == 2 * 10000

\* app/config.py
STAKEHOLDER_TYPES == <<"employees", "customers", "investors", "community", "environment">>
STARTING_CAPITAL == 1000000
STARTING_EMPLOYEES == 10
INITIAL_REPUTATION == 50

\* PatternAnalyzer.__init__(min_decisions=5)
DEFAULT_MIN_DECISIONS == 5

\* GameLogic.__init__
REPUTATION_MULTIPLIER_x10 == 15
LEVEL_XP_REQUIREMENT == 1000
STAKEHOLDER_MEMORY_DURATION == 5

(* ------------------------------ helpers ------------------------------- *)

Range(s) == {s[i] : i \in DOMAIN s}

Max(a, b) == IF a >= b THEN a ELSE b

Min(a, b) == IF a <= b THEN a ELSE b

Abs(a) == IF a < 0 THEN -a ELSE a

\* Python dict.get(key, default)
Get(d, k, default) == IF k \in DOMAIN d THEN d[k] ELSE default

EmptyDict == [k \in {} |-> 0]

RECURSIVE SumOver(_, _)
SumOver(f, keys) ==
    IF keys = {} THEN 0
    ELSE LET k == CHOOSE x \in keys : TRUE
         IN f[k] + SumOver(f, keys \ {k})

RECURSIVE Pow(_, _)
Pow(b, e) == IF e <= 0 THEN 1 ELSE b * Pow(b, e - 1)

\* int(): truncation toward zero
TruncDiv(a, b) == IF a >= 0 THEN a \div b ELSE -((-a) \div b)

\* keys of a dict in iteration order: the canonical stakeholders first (the order
\* initialize_game_state inserts them), any further key after them
ExtraKeys == <<"suppliers", "financial", "reputation">>

DictOrder(d) == SelectSeq(STAKEHOLDER_TYPES \o ExtraKeys, LAMBDA k : k \in DOMAIN d)

(* ------------------------------ objects ------------------------------- *)

VARIABLES
    heap,         \* address -> container object (dict or list)
    game_state,   \* the GameState object the caller holds for the player
    now,          \* datetime.utcnow(), in days
    calls,        \* number of calls made so far
    db_decisions, \* number of decision rows in the store
    last,         \* what the last call was given and what it produced
    history,      \* the player's decisions as get_player_decisions lists them
    analyzer,     \* the PatternAnalyzer object
    analysis,     \* the last two analyze_patterns calls
    requests,     \* the submit_decision requests in flight: where each one stands
    helper_call,  \* the last direct call of a helper: its arguments and its result
    limiter,      \* the rate limiter: Redis sorted sets, the clock, the answers given
    ai            \* the AI service: its cache, its providers, its last call

vars ==
    <<heap, game_state, now, calls, db_decisions, last, history, analyzer, analysis,
      requests, helper_call, limiter, ai>>

\* the deep value of a GameState object: its containers read through the heap
Deref(gs, h) ==
    [gs EXCEPT !.stakeholder_satisfaction = h[gs.stakeholder_satisfaction],
               !.ongoing_events = h[gs.ongoing_events],
               !.metadata = h[gs.metadata]]

\* the containers a GameState object references
Containers(gs) == {gs.stakeholder_satisfaction, gs.ongoing_events, gs.metadata}

\* the address a copy of the container at address a is allocated at
Fresh(a) ==
    CASE a = "dict1" -> "dict3" [] a = "dict3" -> "dict1"
      [] a = "list1" -> "list2" [] a = "list2" -> "list1"
      [] a = "dict2" -> "dict4" [] a = "dict4" -> "dict2"

\* GameState.copy(): a new snapshot, a new object with the same field values
\* whose containers are copies of the original's
copy(gs, h) ==
    LET new == [gs EXCEPT !.stakeholder_satisfaction = Fresh(@),
                          !.ongoing_events = Fresh(@),
                          !.metadata = Fresh(@)]
    IN [state |-> new,
        heap |-> [a \in DOMAIN h \cup Containers(new) |->
                     IF a \in Containers(new) THEN h[Fresh(a)] ELSE h[a]]]

\* the heap once the objects no holder references are gone
Collect(h, holders) ==
    [a \in DOMAIN h \cap UNION {Containers(gs) : gs \in holders} |-> h[a]]

Sat(gs, h) == h[gs.stakeholder_satisfaction]

(* -------------------------- Impact Calculator ------------------------- *)

\* variant with inclusive thresholds: a satisfaction of exactly 30 or 70 is adjusted
_calculate_impact_modifier_inclusive(stakeholder, gs, h) ==
    IF stakeholder \notin DOMAIN Sat(gs, h) THEN [exc |-> "KeyError", val |-> 0]
    ELSE LET satisfaction == Sat(gs, h)[stakeholder]
             by_satisfaction == IF satisfaction <= 30 * SCALE THEN 12
                                ELSE IF satisfaction >= 70 * SCALE THEN 8
                                ELSE 10
             size_modifiers == [small |-> 12, medium |-> 10, large |-> 8]
         IN [exc |-> "none", val |-> by_satisfaction * size_modifiers[gs.company_size]]

\* the modifier in hundredths (1.44 -> 144); KeyError when the state tracks no
\* satisfaction for the key (game_logic.py:195)
_calculate_impact_modifier(stakeholder, gs, h) ==
    IF stakeholder \notin DOMAIN Sat(gs, h) THEN [exc |-> "KeyError", val |-> 0]
    ELSE LET satisfaction == Sat(gs, h)[stakeholder]
             by_satisfaction == IF satisfaction < 30 * SCALE THEN 12
                                ELSE IF satisfaction > 70 * SCALE THEN 8
                                ELSE 10
             size_modifiers == [small |-> 12, medium |-> 10, large |-> 8]
         IN [exc |-> "none", val |-> by_satisfaction * size_modifiers[gs.company_size]]

\* whole currency units; the market multiplier 1 + market_share/100 is applied at a
\* resolution of 1/10000
_calculate_financial_impact(decision, gs) ==
    LET base_impact == Get(decision.impacts, "financial", 0)
        size_multipliers_x10 == [small |-> 5, medium |-> 10, large |-> 20]
        scaled_impact_x10 == base_impact * size_multipliers_x10[gs.company_size]
        market_multiplier_x10000 == 10000 + (gs.market_share * 100) \div SCALE
    IN TruncDiv(TruncDiv(scaled_impact_x10, 10) * market_multiplier_x10000, 10000)

\* the weighted sum of the resolved stakeholder impacts times 1.5 (units of 1/SCALE)
_calculate_reputation_impact(decision, impacts) ==
    LET weights_x10 == [employees |-> 3, customers |-> 3, community |-> 2,
                        environment |-> 1, investors |-> 1]
        weighted_impact_x10 ==
            SumOver([s \in DOMAIN weights_x10 |-> Get(impacts, s, 0) * weights_x10[s]],
                    DOMAIN weights_x10)
    IN (weighted_impact_x10 * REPUTATION_MULTIPLIER_x10) \div 100

\* difficulty_x2 is scenario.difficulty_level in halves (0, 1/2, 1).  The loop over
\* decision.impacts raises KeyError at the first key the state does not track.
_calculate_decision_impacts(decision, scenario, gs, h) ==
    IF \E k \in DOMAIN decision.impacts :
           _calculate_impact_modifier(k, gs, h).exc # "none"
    THEN [exc |-> "KeyError", val |-> EmptyDict]
    ELSE LET resolved ==
                 [k \in DOMAIN decision.impacts |->
                     (decision.impacts[k] * scenario.difficulty_x2 * (SCALE \div 200)
                      * _calculate_impact_modifier(k, gs, h).val)]
             with_financial ==
                 [k \in DOMAIN resolved \cup {"financial"} |->
                     IF k = "financial" THEN _calculate_financial_impact(decision, gs)
                     ELSE resolved[k]]
             with_reputation ==
                 [k \in DOMAIN with_financial \cup {"reputation"} |->
                     IF k = "reputation"
                     THEN _calculate_reputation_impact(decision, with_financial)
                     ELSE with_financial[k]]
         IN [exc |-> "none", val |-> with_reputation]

(* ---------------------------- State Mutator --------------------------- *)

\* ZeroDivisionError when the updated financial_resources is 0 (game_logic.py:264)
_calculate_new_market_share(gs, impacts) ==
    IF gs.financial_resources = 0 THEN [exc |-> "ZeroDivisionError", val |-> 0]
    ELSE LET current_share == gs.market_share
             reputation_change == Get(impacts, "reputation", 0) \div 10
             financial_change ==
                 (Get(impacts, "financial", 0) * SCALE) \div gs.financial_resources
             share_change == (reputation_change + financial_change) \div 2
         IN [exc |-> "none",
             val |-> Max(0, Min(100 * SCALE, current_share + share_change))]

_calculate_sustainability_rating(gs, h) ==
    LET environmental_score == Sat(gs, h)["environment"]
        community_score == Sat(gs, h)["community"]
        overall_score_x10 == environmental_score * 6 + community_score * 4
    IN IF overall_score_x10 >= 900 * SCALE THEN "A+"
       ELSE IF overall_score_x10 >= 800 * SCALE THEN "A"
       ELSE IF overall_score_x10 >= 700 * SCALE THEN "B+"
       ELSE IF overall_score_x10 >= 600 * SCALE THEN "B"
       ELSE IF overall_score_x10 >= 500 * SCALE THEN "C+"
       ELSE IF overall_score_x10 >= 400 * SCALE THEN "C"
       ELSE "D"

\* variant that updates every key of the satisfaction dict that has an impact
ApplySatisfaction_every_key(sat, impacts) ==
    [k \in DOMAIN sat |->
        IF k \in DOMAIN impacts
        THEN Max(0, Min(100 * SCALE, sat[k] + impacts[k]))
        ELSE sat[k]]

\* mutant: the new satisfaction is stored without the clamp to [0, 100]
ApplySatisfaction_unclamped(sat, impacts) ==
    [k \in DOMAIN sat |->
        IF k \in Range(STAKEHOLDER_TYPES) /\ k \in DOMAIN impacts
        THEN sat[k] + impacts[k]
        ELSE sat[k]]

\* the satisfaction dict after the loop over STAKEHOLDER_TYPES (game_logic.py:163-171)
ApplySatisfaction(sat, impacts) ==
    [k \in DOMAIN sat |->
        IF k \in Range(STAKEHOLDER_TYPES) /\ k \in DOMAIN impacts
        THEN Max(0, Min(100 * SCALE, sat[k] + impacts[k]))
        ELSE sat[k]]

\* _apply_impacts after the copy (game_logic.py:158-184): the updated object and
\* the heap; on an exception the heap holds whatever had been written before the raise
ApplyTo(updated_state, h, impacts) ==
    LET s1 == [updated_state EXCEPT
                  !.financial_resources = @ + Get(impacts, "financial", 0),
                  !.reputation = @ + Get(impacts, "reputation", 0)]
        h1 == [h EXCEPT ![s1.stakeholder_satisfaction] = ApplySatisfaction(@, impacts)]
        share == _calculate_new_market_share(s1, impacts)
    IN IF share.exc # "none"
       THEN [exc |-> share.exc, state |-> s1, heap |-> h1]
       ELSE LET s2 == [s1 EXCEPT !.market_share = share.val]
                s3 == [s2 EXCEPT
                          !.sustainability_rating = _calculate_sustainability_rating(s2, h1)]
            IN [exc |-> "none", state |-> s3, heap |-> h1]

\* mutant: no copy is made, the given object is updated
_apply_impacts_in_place(gs, h, impacts) == ApplyTo(gs, h, impacts)

\* mutant: the copy keeps the given object's satisfaction dict
_apply_impacts_shared_satisfaction(gs, h, impacts) ==
    LET c == copy(gs, h)
    IN ApplyTo([c.state EXCEPT !.stakeholder_satisfaction = gs.stakeholder_satisfaction],
               c.heap, impacts)

_apply_impacts(gs, h, impacts) ==
    LET c == copy(gs, h)
    IN ApplyTo(c.state, c.heap, impacts)

(* ---------------------- Event & Progression Engine -------------------- *)

\* a key an event dict does not have
NoKey == "<absent>"

StakeholderCrisis(stakeholder) ==
    [type |-> "stakeholder_crisis", stakeholder |-> stakeholder, severity |-> "high",
     description |-> <<"Critical", stakeholder, "satisfaction level">>]

FinancialCrisis ==
    [type |-> "financial_crisis", stakeholder |-> NoKey, severity |-> "high",
     description |-> <<"Critical financial situation">>]

ReputationCrisis ==
    [type |-> "reputation_crisis", stakeholder |-> NoKey, severity |-> "high",
     description |-> <<"Critical reputation level">>]

\* variant that tests the conditions on the values the impacts were applied to
_check_triggered_events_before_impacts(gs, h, impacts) ==
    LET order == DictOrder(Sat(gs, h))
        low == SelectSeq(order,
                         LAMBDA s : Sat(gs, h)[s] - Get(impacts, s, 0) < 30 * SCALE)
        stakeholder_events == [i \in DOMAIN low |-> StakeholderCrisis(low[i])]
        financial_events ==
            IF (gs.financial_resources - Get(impacts, "financial", 0)) * 10
                   < STARTING_CAPITAL * 2
            THEN <<FinancialCrisis>> ELSE << >>
        reputation_events ==
            IF gs.reputation - Get(impacts, "reputation", 0) < 30 * SCALE
            THEN <<ReputationCrisis>> ELSE << >>
    IN stakeholder_events \o financial_events \o reputation_events

\* the crisis events of the updated state: one per stakeholder below 30 in dict
\* order, then the financial and the reputation crisis; impacts is not read
_check_triggered_events(gs, h, impacts) ==
    LET order == DictOrder(Sat(gs, h))
        low == SelectSeq(order, LAMBDA s : Sat(gs, h)[s] < 30 * SCALE)
        stakeholder_events == [i \in DOMAIN low |-> StakeholderCrisis(low[i])]
        financial_events ==
            IF gs.financial_resources * 10 < STARTING_CAPITAL * 2
            THEN <<FinancialCrisis>> ELSE << >>
        reputation_events ==
            IF gs.reputation < 30 * SCALE THEN <<ReputationCrisis>> ELSE << >>
    IN stakeholder_events \o financial_events \o reputation_events

\* mutant: every triggered event is appended, present or not
AppendNew_always(ongoing, events) == ongoing \o events

\* the list after appending, in order, every event not yet in it
RECURSIVE AppendNew(_, _)
AppendNew(ongoing, events) ==
    IF events = << >> THEN ongoing
    ELSE AppendNew(IF Head(events) \in Range(ongoing) THEN ongoing
                   ELSE Append(ongoing, Head(events)),
                   Tail(events))

\* variant that keeps the events triggered now and drops those no longer triggered
_handle_events_current(gs, h, events) ==
    [h EXCEPT ![gs.ongoing_events] =
        AppendNew(SelectSeq(@, LAMBDA e : e \in Range(events)), events)]

\* appends to the list object the state refers to; returns the heap
_handle_events(gs, h, events) ==
    [h EXCEPT ![gs.ongoing_events] = AppendNew(@, events)]

\* mutant: the impact bonus sums every impact, the negative ones included
_calculate_experience_points_signed(decision, impacts, difficulty_x2) ==
    LET base_xp == 100
        InUnits(k) == IF k = "financial" THEN impacts[k] * SCALE ELSE impacts[k]
        difficulty_bonus == (base_xp * difficulty_x2 * SCALE) \div 2
        stakeholder_count == Cardinality({k \in DOMAIN impacts : Abs(impacts[k]) > 0})
        balance_bonus == (base_xp * stakeholder_count * SCALE) \div Len(STAKEHOLDER_TYPES)
        all == [k \in DOMAIN impacts |-> InUnits(k)]
        impact_bonus == SumOver(all, DOMAIN all) \div 2
        total_xp == base_xp * SCALE + difficulty_bonus + balance_bonus + impact_bonus
    IN TruncDiv(total_xp, SCALE)

\* variant whose balance ratio is capped at 1
_calculate_experience_points_capped(decision, impacts, difficulty_x2) ==
    LET base_xp == 100
        InUnits(k) == IF k = "financial" THEN impacts[k] * SCALE ELSE impacts[k]
        difficulty_bonus == (base_xp * difficulty_x2 * SCALE) \div 2
        stakeholder_count ==
            Min(Len(STAKEHOLDER_TYPES),
                Cardinality({k \in DOMAIN impacts : Abs(impacts[k]) > 0}))
        balance_bonus == (base_xp * stakeholder_count * SCALE) \div Len(STAKEHOLDER_TYPES)
        positive == [k \in DOMAIN impacts |-> IF impacts[k] > 0 THEN InUnits(k) ELSE 0]
        impact_bonus == SumOver(positive, DOMAIN positive) \div 2
        total_xp == base_xp * SCALE + difficulty_bonus + balance_bonus + impact_bonus
    IN TruncDiv(total_xp, SCALE)

\* int(100 + 100*difficulty + 100*(count/len(STAKEHOLDER_TYPES)) + 0.5*sum of the
\* positive impacts); count and sum run over every value of the resolved impacts
_calculate_experience_points(decision, impacts, difficulty_x2) ==
    LET base_xp == 100
        InUnits(k) == IF k = "financial" THEN impacts[k] * SCALE ELSE impacts[k]
        difficulty_bonus == (base_xp * difficulty_x2 * SCALE) \div 2
        stakeholder_count == Cardinality({k \in DOMAIN impacts : Abs(impacts[k]) > 0})
        balance_bonus == (base_xp * stakeholder_count * SCALE) \div Len(STAKEHOLDER_TYPES)
        positive == [k \in DOMAIN impacts |-> IF impacts[k] > 0 THEN InUnits(k) ELSE 0]
        impact_bonus == SumOver(positive, DOMAIN positive) \div 2
        total_xp == base_xp * SCALE + difficulty_bonus + balance_bonus + impact_bonus
    IN TruncDiv(total_xp, SCALE)

\* variant that rounds the requirement up instead of truncating it
_calculate_xp_needed_ceiling(level) ==
    (LEVEL_XP_REQUIREMENT * Pow(3, level - 1) + Pow(2, level - 1) - 1)
        \div Pow(2, level - 1)

\* int(1000 * 1.5 ** (level - 1))
_calculate_xp_needed(level) ==
    (LEVEL_XP_REQUIREMENT * Pow(3, level - 1)) \div Pow(2, level - 1)

\* mutant: the level rises while the experience meets the next requirement
RECURSIVE _check_level_up_repeated(_)
_check_level_up_repeated(gs) ==
    IF gs.experience_points >= _calculate_xp_needed(gs.current_level)
    THEN _check_level_up_repeated([gs EXCEPT !.current_level = @ + 1])
    ELSE gs

\* mutant: every level is reached at the requirement of the first
_check_level_up_flat(gs) ==
    IF gs.experience_points >= _calculate_xp_needed(1)
    THEN [gs EXCEPT !.current_level = @ + 1]
    ELSE gs

_check_level_up(gs) ==
    LET current_level == gs.current_level
        xp_needed == _calculate_xp_needed(current_level)
    IN IF gs.experience_points >= xp_needed
       THEN [gs EXCEPT !.current_level = @ + 1]
       ELSE gs

\* variant that appends and prunes nothing
Remember_unpruned(memories, memory, utcnow) == Append(memories, memory)

\* one stakeholder's memory list after the append and the pruning
Remember(memories, memory, utcnow) ==
    SelectSeq(Append(memories, memory),
              LAMBDA m : utcnow - m.timestamp < STAKEHOLDER_MEMORY_DURATION)

\* writes into the metadata dict the state refers to; returns the heap
_update_stakeholder_memories(gs, h, decision, impacts, utcnow) ==
    LET touched == {s \in Range(STAKEHOLDER_TYPES) : s \in DOMAIN impacts}
        metadata == h[gs.metadata]
        old == Get(metadata, "stakeholder_memories", EmptyDict)
        new == [s \in DOMAIN old \cup touched |->
                   IF s \in touched
                   THEN Remember(Get(old, s, << >>),
                                 [decision_type |-> decision.type,
                                  impact |-> impacts[s],
                                  timestamp |-> utcnow],
                                 utcnow)
                   ELSE old[s]]
    IN IF touched = {} THEN h
       ELSE [h EXCEPT ![gs.metadata] =
                [k \in DOMAIN metadata \cup {"stakeholder_memories"} |->
                    IF k = "stakeholder_memories" THEN new ELSE metadata[k]]]

\* GameLogic.process_decision: the returned state and impacts, or the exception
\* raised; `heap` is the heap the call leaves behind in either case
process_decision(gs, h, scenario, decision, utcnow) ==
    LET calc == _calculate_decision_impacts(decision, scenario, gs, h)
        immediate_impacts == calc.val
        applied == _apply_impacts(gs, h, immediate_impacts)
        events == _check_triggered_events(applied.state, applied.heap, immediate_impacts)
        h2 == IF events # << >> THEN _handle_events(applied.state, applied.heap, events)
              ELSE applied.heap
        xp_gained == _calculate_experience_points(decision, immediate_impacts,
                                                  scenario.difficulty_x2)
        s4 == [applied.state EXCEPT !.experience_points = @ + xp_gained]
        s5 == _check_level_up(s4)
        h3 == _update_stakeholder_memories(s5, h2, decision, immediate_impacts, utcnow)
    IN IF calc.exc # "none"
       THEN [exc |-> calc.exc, state |-> gs, heap |-> h,
             impacts |-> EmptyDict, xp_gained |-> 0]
       ELSE IF applied.exc # "none"
       THEN [exc |-> applied.exc, state |-> gs, heap |-> applied.heap,
             impacts |-> EmptyDict, xp_gained |-> 0]
       ELSE [exc |-> "none", state |-> s5, heap |-> h3,
             impacts |-> immediate_impacts, xp_gained |-> xp_gained]

\* the metadata of a GameState constructed without one: an empty dict
DefaultMetadata == EmptyDict

\* GameLogic.initialize_game_state: the object and the containers it allocates
InitialHeap ==
    [a \in {"dict1", "list1", "dict2"} |->
        IF a = "dict1" THEN [s \in Range(STAKEHOLDER_TYPES) |-> 50 * SCALE]
        ELSE IF a = "list1" THEN << >>
        ELSE DefaultMetadata]

initialize_game_state ==
    [company_size |-> "small",
     financial_resources |-> STARTING_CAPITAL,
     human_resources |-> STARTING_EMPLOYEES,
     reputation |-> INITIAL_REPUTATION * SCALE,
     stakeholder_satisfaction |-> "dict1",
     market_share |-> 5 * SCALE,
     sustainability_rating |-> "C",
     active_challenges |-> << >>,
     ongoing_events |-> "list1",
     current_level |-> 1,
     experience_points |-> 0,
     metadata |-> "dict2"]

(* --------------------------- Pattern Analyzer ------------------------- *)

\* PatternAnalyzer.__init__: the analyzer object
PatternAnalyzer(min_decisions) ==
    [min_decisions |-> min_decisions,
     skill_categories |-> {"stakeholder_management", "ethical_reasoning",
                           "strategic_thinking", "leadership"}]

\* a float of the success path whose value the model does not compute
AFloat == "float"

\* a history entry without the Decision dataclass's attributes (a stored row has
\* no impacts, stakeholders_affected, scenario_type or difficulty_level)
IsRow(d) == d.class = "row"

\* mutant: the cold-start pattern with full confidence
_generate_initial_pattern_confident(self) ==
    [bias_score |-> 0, confidence |-> 1000,
     stakeholder_preferences |->
         [s \in {"employees", "community", "investors", "environment"} |-> 500],
     avoided_topics |-> << >>,
     skill_levels |-> [category \in self.skill_categories |-> 300],
     learning_rate |-> 500, decision_speed |-> 500, consistency_score |-> 500]

\* the cold-start pattern, its floats in thousandths
_generate_initial_pattern(self) ==
    [bias_score |-> 0, confidence |-> 500,
     stakeholder_preferences |->
         [s \in {"employees", "community", "investors", "environment"} |-> 500],
     avoided_topics |-> << >>,
     skill_levels |-> [category \in self.skill_categories |-> 300],
     learning_rate |-> 500, decision_speed |-> 500, consistency_score |-> 500]

\* insertion of d behind every entry whose timestamp is not later (stable)
RECURSIVE InsertByTimestamp(_, _)
InsertByTimestamp(d, s) ==
    IF s = << >> THEN <<d>>
    ELSE IF d.timestamp < Head(s).timestamp THEN <<d>> \o s
    ELSE <<Head(s)>> \o InsertByTimestamp(d, Tail(s))

\* sorted(decisions, key=lambda x: x.timestamp): a new list
RECURSIVE sorted(_)
sorted(decisions) ==
    IF decisions = << >> THEN << >>
    ELSE LET n == Len(decisions)
         IN InsertByTimestamp(decisions[n], sorted(SubSeq(decisions, 1, n - 1)))

\* 1 - np.mean([abs(v1 - v2) / 200 for every key of either]), in thousandths; the
\* mean of no difference is nan
_calculate_impact_similarity(impacts1, impacts2) ==
    LET all_keys == DOMAIN impacts1 \cup DOMAIN impacts2
        differences == [key \in all_keys |->
                           Abs(Get(impacts1, key, 0) - Get(impacts2, key, 0))]
    IN IF all_keys = {} THEN [nan |-> TRUE, val |-> 0]
       ELSE [nan |-> FALSE,
             val |-> 1000 - (SumOver(differences, all_keys) * 5)
                                \div Cardinality(all_keys)]

\* (impact_similarity + stakeholder_similarity) / 2, in thousandths.  The division
\* len(a & b) / len(a | b) of two ints raises when both lists of affected
\* stakeholders are empty; np.mean of an empty list is nan and raises nothing
_calculate_decision_similarity(decision1, decision2) ==
    LET impact_similarity ==
            _calculate_impact_similarity(decision1.impacts, decision2.impacts)
        both == decision1.stakeholders_affected \cap decision2.stakeholders_affected
        either == decision1.stakeholders_affected \cup decision2.stakeholders_affected
    IN IF either = {}
       THEN [exc |-> "ZeroDivisionError", nan |-> FALSE, val |-> 0]
       ELSE IF impact_similarity.nan THEN [exc |-> "none", nan |-> TRUE, val |-> 0]
       ELSE [exc |-> "none", nan |-> FALSE,
             val |-> (impact_similarity.val
                          + (Cardinality(both) * 1000) \div Cardinality(either)) \div 2]

\* np.mean of a list of floats, in the unit of the floats; nan if any of them is
MeanOf(floats) ==
    LET values == [i \in DOMAIN floats |-> floats[i].val]
    IN IF \E i \in DOMAIN floats : floats[i].nan THEN [nan |-> TRUE, val |-> 0]
       ELSE [nan |-> FALSE,
             val |-> SumOver(values, DOMAIN values) \div Cardinality(DOMAIN floats)]

\* the mean of the three accumulators short_term, financial and stakeholder (which
\* stays 0), in thousandths: the sums run over all decisions and are divided by
\* nothing but 3.  np.mean over no affected stakeholder is nan
_calculate_bias_score(decisions) ==
    IF \E i \in DOMAIN decisions : IsRow(decisions[i])
    THEN [exc |-> "AttributeError", nan |-> FALSE, val |-> 0]
    ELSE LET short_term(d) ==
                 (Get(d.impacts, "immediate", 0) - Get(d.impacts, "long_term", 0)) * 10
             of_stakeholders(d) ==
                 [s \in d.stakeholders_affected |-> Get(d.impacts, s, 0)]
             financial(d) ==
                 Get(d.impacts, "financial", 0) * 10
                     - (SumOver(of_stakeholders(d), d.stakeholders_affected) * 10)
                           \div Cardinality(d.stakeholders_affected)
             biases == [i \in DOMAIN decisions |->
                           short_term(decisions[i]) + financial(decisions[i])]
         IN IF \E i \in DOMAIN decisions : decisions[i].stakeholders_affected = {}
            THEN [exc |-> "none", nan |-> TRUE, val |-> 0]
            ELSE [exc |-> "none", nan |-> FALSE,
                  val |-> TruncDiv(SumOver(biases, DOMAIN biases), 3)]

\* the last five by timestamp; time_spent / avg_time divides by a numpy float and
\* raises nothing; 0 / len(recent_decisions) raises on an empty history
_calculate_confidence(decisions) ==
    LET all == sorted(decisions)
        n == Len(all)
        recent_decisions == SubSeq(all, Max(1, n - 4), n)
        \* what the loop body raises at the i-th entry, i > 1
        At(i) == IF IsRow(recent_decisions[i]) \/ IsRow(recent_decisions[i - 1])
                 THEN "AttributeError"
                 ELSE IF recent_decisions[i].scenario_type
                             = recent_decisions[i - 1].scenario_type
                 THEN _calculate_decision_similarity(
                          recent_decisions[i], recent_decisions[i - 1]).exc
                 ELSE "none"
        raising == {i \in 2..Len(recent_decisions) : At(i) # "none"}
    IN IF raising # {}
       THEN [exc |-> At(CHOOSE i \in raising : \A j \in raising : i <= j),
             val |-> AFloat]
       ELSE IF recent_decisions = << >>
       THEN [exc |-> "ZeroDivisionError", val |-> AFloat]
       ELSE [exc |-> "none", val |-> AFloat]

\* (np.mean(impacts of the decisions that affect the stakeholder) + 100) / 200, in
\* thousandths, for every stakeholder some decision affects
_analyze_stakeholder_preferences(decisions) ==
    IF \E i \in DOMAIN decisions : IsRow(decisions[i])
    THEN [exc |-> "AttributeError", val |-> EmptyDict]
    ELSE LET Affecting(s) == {i \in DOMAIN decisions : s \in decisions[i].stakeholders_affected}
             impacts(s) == [i \in Affecting(s) |-> Get(decisions[i].impacts, s, 0)]
         IN [exc |-> "none",
             val |-> [s \in UNION {decisions[i].stakeholders_affected :
                                       i \in DOMAIN decisions} |->
                         ((SumOver(impacts(s), Affecting(s)) * 1000)
                              \div Cardinality(Affecting(s)) + 100000) \div 200]]

\* abs(np.mean(list(decision.impacts.values()))) < 10 and time_spent < 15: the
\* absolute value of the mean, |sum| < 10 * n; the mean of no value is nan, and
\* no comparison with nan is true
_is_avoidance_behavior(decision) ==
    IF IsRow(decision) THEN [exc |-> "AttributeError", val |-> FALSE]
    ELSE LET values == decision.impacts
             n == Cardinality(DOMAIN values)
             quick_decision == decision.time_spent < 15
             minimal_impact == n > 0 /\ Abs(SumOver(values, DOMAIN values)) < 10 * n
         IN [exc |-> "none", val |-> quick_decision /\ minimal_impact]

\* the scenario types of a history, each once, in the order of first occurrence
\* (the key order of the defaultdict topic_counts)
RECURSIVE Topics(_)
Topics(decisions) ==
    IF decisions = << >> THEN << >>
    ELSE LET n == Len(decisions)
             before == Topics(SubSeq(decisions, 1, n - 1))
         IN IF decisions[n].scenario_type \in Range(before) THEN before
            ELSE Append(before, decisions[n].scenario_type)

\* topic_avoidance[topic] / count > 0.7, that is 10 * avoided > 7 * count
_identify_avoided_topics(decisions) ==
    IF \E i \in DOMAIN decisions : IsRow(decisions[i])
    THEN [exc |-> "AttributeError", val |-> << >>]
    ELSE LET Of(topic) == {i \in DOMAIN decisions : decisions[i].scenario_type = topic}
             Avoided(topic) == {i \in Of(topic) : _is_avoidance_behavior(decisions[i]).val}
         IN [exc |-> "none",
             val |-> SelectSeq(Topics(decisions),
                               LAMBDA topic : 10 * Cardinality(Avoided(topic))
                                                  > 7 * Cardinality(Of(topic)))]

\* self._calculate_skill_score is defined nowhere: the first decision with a first
\* category raises AttributeError
_assess_skill_levels(self, decisions) ==
    IF decisions # << >> /\ self.skill_categories # {}
    THEN [exc |-> "AttributeError", val |-> AFloat]
    ELSE [exc |-> "none", val |-> EmptyDict]

\* the score of a window of decisions, in millionths:
\* mean of (mean(impacts) + 100) / 200 * difficulty_level over the window
_calculate_window_performance(decisions) ==
    LET Mean(values) == (SumOver(values, DOMAIN values) * 1000000)
                            \div Cardinality(DOMAIN values)
        Score(decision) == (((Mean(decision.impacts) + 100000000) \div 200)
                                * decision.difficulty_x2) \div 2
        scores == [i \in DOMAIN decisions |-> Score(decisions[i])]
    IN SumOver(scores, DOMAIN scores) \div Len(decisions)

\* performance_trend: one performance per i in range(len(sorted_decisions) - 5),
\* the window being sorted_decisions[i:i+5]
performance_trend(decisions) ==
    LET sorted_decisions == sorted(decisions)
        window_size == 5
    IN [i \in 1..(Len(sorted_decisions) - window_size) |->
           _calculate_window_performance(
               SubSeq(sorted_decisions, i, i + window_size - 1))]

\* np.polyfit(range(len(y)), y, 1)[0]: the least-squares slope over x = 0..m-1,
\* 6 * sum((2x - (m - 1)) * y) / (m * (m^2 - 1)), in millionths
Slope(y) ==
    LET m == Len(y)
        weighted == [i \in 1..m |-> (2 * (i - 1) - (m - 1)) * y[i]]
    IN IF m < 2 THEN 0
       ELSE TruncDiv(6 * SumOver(weighted, 1..m), m * (m * m - 1))

\* fewer than ten decisions give 0.5; otherwise max(0, min(1, (slope + 1) / 2)),
\* in thousandths.  A decision without impacts has a nan score, and what the fit
\* makes of nan is not computed here
_calculate_learning_rate(decisions) ==
    IF Len(decisions) < 10 THEN [exc |-> "none", val |-> 500]
    ELSE IF \E i \in DOMAIN decisions : IsRow(decisions[i])
    THEN [exc |-> "AttributeError", val |-> AFloat]
    ELSE IF \E i \in DOMAIN decisions : DOMAIN decisions[i].impacts = {}
    THEN [exc |-> "none", val |-> AFloat]
    ELSE [exc |-> "none",
          val |-> Max(0, Min(1000,
                      (Slope(performance_trend(decisions)) + 1000000) \div 2000))]

\* expected_time / actual_time divides a float by the int time_spent
_analyze_decision_speed(decisions) ==
    IF decisions = << >> THEN [exc |-> "none", val |-> 500]
    ELSE LET bad == {i \in DOMAIN decisions :
                         IsRow(decisions[i]) \/ decisions[i].time_spent = 0}
             first == CHOOSE i \in bad : \A j \in bad : i <= j
         IN IF bad = {} THEN [exc |-> "none", val |-> AFloat]
            ELSE IF IsRow(decisions[first])
            THEN [exc |-> "AttributeError", val |-> AFloat]
            ELSE [exc |-> "ZeroDivisionError", val |-> AFloat]

\* the i-th and j-th decision of a list, for every i < j, as range(len - 1) and
\* range(i + 1, len) enumerate them
Pairs(list) == {p \in (DOMAIN list) \X (DOMAIN list) : p[1] < p[2]}

\* the mean over the scenario types with two decisions or more of the mean
\* similarity of their pairs, in thousandths; 0.5 for fewer than three decisions
\* or when no type has two
_calculate_consistency(decisions) ==
    IF Len(decisions) < 3 THEN [exc |-> "none", nan |-> FALSE, val |-> 500]
    ELSE IF \E i \in DOMAIN decisions : IsRow(decisions[i])
    THEN [exc |-> "AttributeError", nan |-> FALSE, val |-> 0]
    ELSE IF \E i, j \in DOMAIN decisions :
              /\ i < j
              /\ decisions[i].scenario_type = decisions[j].scenario_type
              /\ _calculate_decision_similarity(decisions[i], decisions[j]).exc # "none"
    THEN [exc |-> "ZeroDivisionError", nan |-> FALSE, val |-> 0]
    ELSE LET type_decisions(scenario_type) ==
                 SelectSeq(decisions, LAMBDA d : d.scenario_type = scenario_type)
             Similarity(list) ==
                 MeanOf([p \in Pairs(list) |->
                            _calculate_decision_similarity(list[p[1]], list[p[2]])])
             types == SelectSeq(Topics(decisions),
                                LAMBDA t : Len(type_decisions(t)) >= 2)
             consistency_scores ==
                 [k \in DOMAIN types |-> Similarity(type_decisions(types[k]))]
         IN IF types = << >> THEN [exc |-> "none", nan |-> FALSE, val |-> 500]
            ELSE [exc |-> "none"] @@ MeanOf(consistency_scores)

\* the keyword arguments of LearningPattern(...), in the order they are evaluated
Fields(self, decisions) ==
    <<_calculate_bias_score(decisions), _calculate_confidence(decisions),
      _analyze_stakeholder_preferences(decisions), _identify_avoided_topics(decisions),
      _assess_skill_levels(self, decisions), _calculate_learning_rate(decisions),
      _analyze_decision_speed(decisions), _calculate_consistency(decisions)>>

\* the exception of the first field that raises, or "none"
FirstException(fields) ==
    LET raising == {i \in DOMAIN fields : fields[i].exc # "none"}
    IN IF raising = {} THEN "none"
       ELSE fields[CHOOSE i \in raising : \A j \in raising : i <= j].exc

LearningPattern(fields) ==
    [bias_score |-> fields[1].val, confidence |-> fields[2].val,
     stakeholder_preferences |-> fields[3].val, avoided_topics |-> fields[4].val,
     skill_levels |-> fields[5].val, learning_rate |-> fields[6].val,
     decision_speed |-> fields[7].val, consistency_score |-> fields[8].val]

NoPattern == [none |-> TRUE]

\* mutant: the fields are computed outside any try block
analyze_patterns_uncaught(self, decisions) ==
    IF Len(decisions) < self.min_decisions
    THEN [raised |-> "none", caught |-> "none", pattern |-> _generate_initial_pattern(self),
          decisions |-> decisions, self |-> self]
    ELSE LET fields == Fields(self, decisions)
             e == FirstException(fields)
         IN [raised |-> e, caught |-> "none",
             pattern |-> IF e = "none" THEN LearningPattern(fields) ELSE NoPattern,
             decisions |-> decisions, self |-> self]

\* mutant: the history is sorted in place (decisions.sort(key=...))
analyze_patterns_sorting(self, decisions) ==
    IF Len(decisions) < self.min_decisions
    THEN [raised |-> "none", caught |-> "none", pattern |-> _generate_initial_pattern(self),
          decisions |-> decisions, self |-> self]
    ELSE LET fields == Fields(self, decisions)
             e == FirstException(fields)
         IN [raised |-> "none", caught |-> e,
             pattern |-> IF e = "none" THEN LearningPattern(fields)
                         ELSE _generate_initial_pattern(self),
             decisions |-> IF fields[1].exc # "none" THEN decisions
                           ELSE sorted(decisions),
             self |-> self]

\* PatternAnalyzer.analyze_patterns: the pattern returned, the exception raised to
\* the caller (raised) or caught inside (caught), and the list and the analyzer as
\* the call leaves them
analyze_patterns(self, decisions) ==
    IF Len(decisions) < self.min_decisions
    THEN [raised |-> "none", caught |-> "none", pattern |-> _generate_initial_pattern(self),
          decisions |-> decisions, self |-> self]
    ELSE LET fields == Fields(self, decisions)
             e == FirstException(fields)
         IN [raised |-> "none", caught |-> e,
             pattern |-> IF e = "none" THEN LearningPattern(fields)
                         ELSE _generate_initial_pattern(self),
             decisions |-> decisions, self |-> self]

(* --------------------------- prompt templates ------------------------- *)

\* a dict as the list of its items in iteration order; satisfaction in tenths
Keys(items) == [i \in DOMAIN items |-> items[i][1]]

\* min(satisfaction_levels.items(), key=lambda x: x[1]): the first item of the
\* smallest value
MinItem(items) ==
    items[CHOOSE i \in DOMAIN items :
              /\ \A j \in DOMAIN items : items[i][2] <= items[j][2]
              /\ \A j \in 1..(i - 1) : items[j][2] > items[i][2]]

\* mutant: a stakeholder at exactly 60 counts as low
_determine_required_stakeholders_inclusive(satisfaction_levels) ==
    LET required == Keys(SelectSeq(satisfaction_levels, LAMBDA item : item[2] <= 600))
    IN IF required = << >> /\ satisfaction_levels # << >>
       THEN <<MinItem(satisfaction_levels)[1]>>
       ELSE required

\* ScenarioPrompt._determine_required_stakeholders
_determine_required_stakeholders(satisfaction_levels) ==
    LET required == Keys(SelectSeq(satisfaction_levels, LAMBDA item : item[2] < 600))
    IN IF required = << >> /\ satisfaction_levels # << >>
       THEN <<MinItem(satisfaction_levels)[1]>>
       ELSE required

(* ----------------------------- rate limiter --------------------------- *)

\* the sorted set of one key after ZREMRANGEBYSCORE 0 window_start, ZADD of the
\* member str(current_time) with score current_time, and EXPIRE window.  Members
\* are whole seconds, so the requests of one second share one member.  The key is
\* gone once its expiry has passed
Pipeline(zset, expire_at, window, current_time) ==
    LET live == IF current_time >= expire_at THEN {} ELSE zset
        kept == {member \in live : member > current_time - window}
    IN [request_count |-> Cardinality(kept),
        zset |-> kept \cup {current_time},
        expire_at |-> current_time + window]

\* RateLimitManager.check_rate_limit for one key: the answer, the limit info and
\* the sorted set left behind.  request_count is the ZCARD taken before the ZADD.
\* redis is "ok", "down" (the pipeline raises and nothing is applied) or
\* "reply lost" (the pipeline is applied and raises)
check_rate_limit(zset, expire_at, limit, window, current_time, redis) ==
    LET window_start == current_time - window
        done == Pipeline(zset, expire_at, window, current_time)
    IN IF redis = "ok"
       THEN [is_allowed |-> done.request_count <= limit,
             remaining |-> Max(0, limit - done.request_count),
             reset |-> window_start + window,
             zset |-> done.zset, expire_at |-> done.expire_at]
       ELSE [is_allowed |-> TRUE, remaining |-> 1, reset |-> window_start + window,
             zset |-> IF redis = "down" THEN zset ELSE done.zset,
             expire_at |-> IF redis = "down" THEN expire_at ELSE done.expire_at]

(* ------------------------------ AI service ---------------------------- *)

\* provider.generate_completion(prompt) followed by self._parse_response(text): the
\* calls made and the exception raised.  outcome is "ok", "call fails" (the
\* retries are used up) or "parse fails" (the text is no scenario)
Attempt(provider, outcome) ==
    IF outcome = "call fails"
    THEN [trace |-> <<provider>>, exc |-> "RetryError"]
    ELSE IF outcome = "parse fails"
    THEN [trace |-> <<provider, "_parse_response">>, exc |-> "ValueError"]
    ELSE [trace |-> <<provider, "_parse_response">>, exc |-> "none"]

\* CacheService.store_scenario(prompt, response): json.dumps of the AIResponse
\* dataclass raises TypeError inside the try block, which prints and returns, so
\* nothing reaches Redis, whether it is up or down
store_scenario(cache, prompt, response, redis) == cache

\* mutant: the providers are asked although the cache holds the prompt
generate_scenario_uncached(self, cache, prompt, redis, primary, backup) ==
    LET first == Attempt("primary_provider", primary)
        second == Attempt("backup_provider", backup)
        looked == IF self.cache_service THEN <<"get_scenario">> ELSE << >>
        stored == IF self.cache_service THEN <<"store_scenario">> ELSE << >>
    IN IF self.cache_service /\ redis = "down"
       THEN [trace |-> looked, raised |-> "ConnectionError", returned |-> "none",
             cache |-> cache]
       ELSE IF first.exc = "none"
       THEN [trace |-> looked \o first.trace \o stored, raised |-> "none",
             returned |-> "primary",
             cache |-> IF self.cache_service
                       THEN store_scenario(cache, prompt, "primary", redis) ELSE cache]
       ELSE IF ~self.backup_provider
       THEN [trace |-> looked \o first.trace, raised |-> first.exc,
             returned |-> "none", cache |-> cache]
       ELSE IF second.exc # "none"
       THEN [trace |-> looked \o first.trace \o second.trace,
             raised |-> "RuntimeError", returned |-> "none", cache |-> cache]
       ELSE [trace |-> looked \o first.trace \o second.trace \o stored,
             raised |-> "none", returned |-> "backup",
             cache |-> IF self.cache_service
                       THEN store_scenario(cache, prompt, "backup", redis) ELSE cache]

\* AIService.generate_scenario: the calls it makes in order, the exception it
\* raises, where the response it returns came from, and the cache it leaves.
\* redis "down" makes the cache lookup raise; primary and backup are the outcomes
\* the providers would have if asked
generate_scenario(self, cache, prompt, redis, primary, backup) ==
    LET first == Attempt("primary_provider", primary)
        second == Attempt("backup_provider", backup)
        looked == IF self.cache_service THEN <<"get_scenario">> ELSE << >>
        stored == IF self.cache_service THEN <<"store_scenario">> ELSE << >>
    IN IF self.cache_service /\ redis = "down"
       THEN [trace |-> looked, raised |-> "ConnectionError", returned |-> "none",
             cache |-> cache]
       ELSE IF self.cache_service /\ prompt \in cache
       THEN [trace |-> looked, raised |-> "none", returned |-> "cache", cache |-> cache]
       ELSE IF first.exc = "none"
       THEN [trace |-> looked \o first.trace \o stored, raised |-> "none",
             returned |-> "primary",
             cache |-> IF self.cache_service
                       THEN store_scenario(cache, prompt, "primary", redis) ELSE cache]
       ELSE IF ~self.backup_provider
       THEN [trace |-> looked \o first.trace, raised |-> first.exc,
             returned |-> "none", cache |-> cache]
       ELSE IF second.exc # "none"
       THEN [trace |-> looked \o first.trace \o second.trace,
             raised |-> "RuntimeError", returned |-> "none", cache |-> cache]
       ELSE [trace |-> looked \o first.trace \o second.trace \o stored,
             raised |-> "none", returned |-> "backup",
             cache |-> IF self.cache_service
                       THEN store_scenario(cache, prompt, "backup", redis) ELSE cache]

(* ------------------------------- inputs ------------------------------- *)

Impacts1(k, v) == [x \in {k} |-> v]

Impacts2(k1, v1, k2, v2) == [x \in {k1, k2} |-> IF x = k1 THEN v1 ELSE v2]

\* the decisions a caller submits: the chosen approach, the decision type, the
\* parameters given and the declared impacts (raw deltas)
Decisions ==
    { [approach_id |-> "a1", type |-> "operational", parameters |-> {},
       impacts |-> EmptyDict],
      [approach_id |-> "a2", type |-> "people", parameters |-> {"bribe"},
       impacts |-> Impacts1("employees", 1500)],
      [approach_id |-> "a9", type |-> "pricing", parameters |-> {},
       impacts |-> Impacts1("customers", -1500)],
      [approach_id |-> "a1", type |-> "site", parameters |-> {"budget"},
       impacts |-> [s \in Range(STAKEHOLDER_TYPES) |->
                       CASE s = "environment" -> -60 [] s = "community" -> 40
                         [] OTHER -> 10]],
      [approach_id |-> "a2", type |-> "people", parameters |-> {},
       impacts |-> Impacts2("employees", 20, "financial", -10000)],
      [approach_id |-> "a1", type |-> "supply", parameters |-> {},
       impacts |-> Impacts2("employees", 20, "suppliers", 20)] }

\* the scenarios: difficulty in halves, the approaches offered, the parameters
\* allowed, the time constraint (0: none) and the creation time, both in days
Scenarios ==
    { [difficulty_x2 |-> 0, possible_approaches |-> {"a1", "a2"},
       required_parameters |-> {"budget"}, time_constraint |-> 0, created_at |-> 0],
      [difficulty_x2 |-> 1, possible_approaches |-> {"a1", "a2"},
       required_parameters |-> {"budget"}, time_constraint |-> 0, created_at |-> 0],
      [difficulty_x2 |-> 2, possible_approaches |-> {"a1", "a2"},
       required_parameters |-> {"budget"}, time_constraint |-> 4, created_at |-> 0] }

\* days that pass before a call
ElapsedDays == {0, 5}

\* financial_resources of the game states found in the store
StoredFinancialResources == {0, 150000}

\* game states found in the store: a small company with satisfactions below 30, at
\* 30 and at 70; a large one with the satisfactions of the tests' sample state, at
\* level 5; a medium one that also tracks its suppliers, short of money and repute
StoredStates ==
    { [company_size |-> "small", financial_resources |-> STARTING_CAPITAL,
       reputation |-> 50 * SCALE, current_level |-> 1, experience_points |-> 0,
       stakeholder_satisfaction |->
           [s \in Range(STAKEHOLDER_TYPES) |->
               CASE s = "employees" -> 25 * SCALE [] s = "customers" -> 30 * SCALE
                 [] s = "investors" -> 70 * SCALE [] s = "community" -> 65 * SCALE
                 [] s = "environment" -> 60 * SCALE]],
      [company_size |-> "large", financial_resources |-> STARTING_CAPITAL,
       reputation |-> 50 * SCALE, current_level |-> 5, experience_points |-> 4962,
       stakeholder_satisfaction |->
           [s \in Range(STAKEHOLDER_TYPES) |->
               CASE s = "employees" -> 75 * SCALE [] s = "customers" -> 80 * SCALE
                 [] s = "investors" -> 70 * SCALE [] s = "community" -> 65 * SCALE
                 [] s = "environment" -> 60 * SCALE]],
      [company_size |-> "medium", financial_resources |-> 150000,
       reputation |-> 25 * SCALE, current_level |-> 1, experience_points |-> 0,
       stakeholder_satisfaction |->
           [s \in Range(STAKEHOLDER_TYPES) \cup {"suppliers"} |-> 50 * SCALE]] }

\* the GameState object and the containers a stored state is loaded into
Loaded(s) ==
    LET h == [InitialHeap EXCEPT !["dict1"] = s.stakeholder_satisfaction]
        gs == [initialize_game_state EXCEPT
                  !.company_size = s.company_size,
                  !.financial_resources = s.financial_resources,
                  !.reputation = s.reputation,
                  !.current_level = s.current_level,
                  !.experience_points = s.experience_points]
    IN [state |-> [gs EXCEPT !.sustainability_rating =
                                 _calculate_sustainability_rating(gs, h)],
        heap |-> h]

\* what the store returns for an id it does not know
None == [none |-> TRUE]

NoCall ==
    [op |-> "none", outcome |-> "none", approach_id |-> "none",
     decision_type |-> "none", approaches |-> {},
     found |-> FALSE, stored_before |-> 0, declared |-> EmptyDict,
     difficulty_x2 |-> 0, input |-> initialize_game_state,
     before |-> Deref(initialize_game_state, InitialHeap),
     returned |-> initialize_game_state, impacts |-> EmptyDict, xp_gained |-> 0]

\* the decisions a history is made of: two of one scenario type, one of them with
\* no affected stakeholder, no impact and no time spent; one of another type; and a
\* stored row, which is no Decision dataclass
AnalyzerDecisions ==
    {[class |-> "Decision", timestamp |-> 0, scenario_type |-> "ethics",
      stakeholders_affected |-> {"employees"}, impacts |-> Impacts1("employees", 20),
      time_spent |-> 60, difficulty_x2 |-> 2],
     [class |-> "Decision", timestamp |-> 0, scenario_type |-> "ethics",
      stakeholders_affected |-> {}, impacts |-> EmptyDict,
      time_spent |-> 0, difficulty_x2 |-> 1],
     [class |-> "Decision", timestamp |-> 0, scenario_type |-> "finance",
      stakeholders_affected |-> {"investors"}, impacts |-> Impacts1("financial", 50),
      time_spent |-> 10, difficulty_x2 |-> 1],
     [class |-> "row", timestamp |-> 0, scenario_type |-> "", stakeholders_affected |-> {},
      impacts |-> EmptyDict, time_spent |-> 30, difficulty_x2 |-> 0]}

NoAnalysis ==
    [called |-> FALSE, decisions |-> << >>,
     self |-> PatternAnalyzer(DEFAULT_MIN_DECISIONS), raised |-> "none",
     caught |-> "none", pattern |-> NoPattern, decisions_after |-> << >>,
     self_after |-> PatternAnalyzer(DEFAULT_MIN_DECISIONS)]

\* a request that has not arrived
NoRequest ==
    [pc |-> "idle", decision |-> None, scenario |-> None,
     game_state |-> Deref(initialize_game_state, InitialHeap),
     updated_state |-> Deref(initialize_game_state, InitialHeap), status |-> 0]

\* the decisions the analyzer's helpers are called on directly: impacts of opposite
\* sign that cancel, a quick decision of small impact, the same taken slowly, an
\* impact above 100 and one below -100, a decision that favours money and the short term,
\* one with no impact and no affected stakeholder, and a stored row
HelperDecisions ==
    {[class |-> "Decision", timestamp |-> 0, scenario_type |-> "ethics",
      stakeholders_affected |-> {"employees", "customers"},
      impacts |-> Impacts2("employees", 50, "customers", -50),
      time_spent |-> 10, difficulty_x2 |-> 2],
     [class |-> "Decision", timestamp |-> 0, scenario_type |-> "ethics",
      stakeholders_affected |-> {"employees"}, impacts |-> Impacts1("employees", 5),
      time_spent |-> 10, difficulty_x2 |-> 2],
     [class |-> "Decision", timestamp |-> 0, scenario_type |-> "ethics",
      stakeholders_affected |-> {"employees"}, impacts |-> Impacts1("employees", 5),
      time_spent |-> 60, difficulty_x2 |-> 2],
     [class |-> "Decision", timestamp |-> 0, scenario_type |-> "finance",
      stakeholders_affected |-> {"employees"}, impacts |-> Impacts1("employees", 300),
      time_spent |-> 10, difficulty_x2 |-> 2],
     [class |-> "Decision", timestamp |-> 0, scenario_type |-> "finance",
      stakeholders_affected |-> {"employees"}, impacts |-> Impacts1("employees", -300),
      time_spent |-> 10, difficulty_x2 |-> 2],
     [class |-> "Decision", timestamp |-> 0, scenario_type |-> "finance",
      stakeholders_affected |-> {"investors"},
      impacts |-> [k \in {"financial", "immediate", "long_term", "investors"} |->
                      IF k \in {"financial", "immediate"} THEN 100 ELSE -100],
      time_spent |-> 10, difficulty_x2 |-> 2],
     [class |-> "Decision", timestamp |-> 0, scenario_type |-> "finance",
      stakeholders_affected |-> {}, impacts |-> EmptyDict,
      time_spent |-> 15, difficulty_x2 |-> 2],
     [class |-> "row", timestamp |-> 0, scenario_type |-> "", stakeholders_affected |-> {},
      impacts |-> EmptyDict, time_spent |-> 30, difficulty_x2 |-> 0]}

\* the histories the helpers are called on: the i-th decision made at time i
HelperHistories ==
    UNION {{[i \in 1..n |-> [h[i] EXCEPT !.timestamp = i]] :
                h \in [1..n -> HelperDecisions]} : n \in 0..MaxHelperHistory}

\* the histories _calculate_learning_rate is called on: nine decisions or more,
\* each of impact 10 or 60 on the employees, listed oldest or newest first
LearningHistories ==
    UNION {{[i \in 1..n |->
                [class |-> "Decision",
                 timestamp |-> IF order = "oldest first" THEN i ELSE n + 1 - i,
                 scenario_type |-> "ethics", stakeholders_affected |-> {"employees"},
                 impacts |-> Impacts1("employees", impact[i]),
                 time_spent |-> 60, difficulty_x2 |-> 2]] :
                impact \in [1..n -> {10, 60}], order \in {"oldest first", "newest first"}} :
           n \in 9..MaxLearningHistory}

\* the satisfaction mappings _determine_required_stakeholders is called on: up to
\* three stakeholders in any insertion order, each far below, just below, at or
\* above 60 (in tenths)
SatisfactionLevels ==
    LET names == {"employees", "customers", "investors"}
    IN UNION {{items \in [1..n -> names \X {400, 599, 600, 900}] :
                   \A i, j \in 1..n : i # j => items[i][1] # items[j][1]} :
              n \in 0..Cardinality(names)}

\* no helper has been called
NoHelperCall == [op |-> "none", args |-> << >>, result |-> [exc |-> "none", val |-> 0]]

\* the limits and windows (seconds) a middleware is configured with
Limits == {1, 2}

Windows == {2, 3}

\* no rate limiter is set up
NoLimiter ==
    [limit |-> 0, window |-> 0, time |-> 0, zset |-> {}, expire_at |-> 0, log |-> << >>]

\* the prompts scenarios are asked for
Prompts == {"prompt1", "prompt2"}

\* what a provider does when asked
ProviderOutcomes == {"ok", "call fails", "parse fails"}

\* no generate_scenario call has been made
NoGeneration ==
    [prompt |-> "", redis |-> "ok", primary |-> "ok", backup |-> "ok", hit |-> FALSE,
     trace |-> << >>, raised |-> "none", returned |-> "none"]

\* no AI service is set up
NoAIService ==
    [backup_provider |-> FALSE, cache_service |-> FALSE, cache |-> {}, calls |-> 0,
     last |-> NoGeneration]

(* ------------------------------- actions ------------------------------ *)

Init ==
    /\ heap = InitialHeap
    /\ game_state = initialize_game_state
    /\ now = 0
    /\ calls = 0
    /\ db_decisions = 0
    /\ last = NoCall
    /\ history = << >>
    /\ analyzer = PatternAnalyzer(DEFAULT_MIN_DECISIONS)
    /\ analysis = [count |-> 0, prev |-> NoAnalysis, cur |-> NoAnalysis]
    /\ requests = [i \in 1..MaxInFlight |-> NoRequest]
    /\ helper_call = NoHelperCall
    /\ limiter = NoLimiter
    /\ ai = NoAIService

\* the player's game state as found in the store (DBService.get_game_state)
InitStored ==
    /\ heap = InitialHeap
    /\ \E f \in StoredFinancialResources :
           game_state = [initialize_game_state EXCEPT !.financial_resources = f]
    /\ now = 0
    /\ calls = 0
    /\ db_decisions = 0
    /\ last = NoCall
    /\ history = << >>
    /\ analyzer = PatternAnalyzer(DEFAULT_MIN_DECISIONS)
    /\ analysis = [count |-> 0, prev |-> NoAnalysis, cur |-> NoAnalysis]
    /\ requests = [i \in 1..MaxInFlight |-> NoRequest]
    /\ helper_call = NoHelperCall
    /\ limiter = NoLimiter
    /\ ai = NoAIService

\* one of the stored game states, loaded (DBService.get_game_state)
InitLoaded ==
    /\ \E s \in StoredStates :
           /\ heap = Loaded(s).heap
           /\ game_state = Loaded(s).state
    /\ now = 0
    /\ calls = 0
    /\ db_decisions = 0
    /\ last = NoCall
    /\ history = << >>
    /\ analyzer = PatternAnalyzer(DEFAULT_MIN_DECISIONS)
    /\ analysis = [count |-> 0, prev |-> NoAnalysis, cur |-> NoAnalysis]
    /\ requests = [i \in 1..MaxInFlight |-> NoRequest]
    /\ helper_call = NoHelperCall
    /\ limiter = NoLimiter
    /\ ai = NoAIService

\* a direct call of GameLogic.process_decision; the caller keeps the returned
\* state (game_state, impacts = await process_decision(game_state, ...))
ProcessDecision ==
    /\ calls < MaxCalls
    /\ \E decision \in Decisions, scenario \in Scenarios, elapsed \in ElapsedDays :
           \E r \in {process_decision(game_state, heap, scenario, decision, now + elapsed)} :
              /\ heap' = Collect(r.heap, {game_state, r.state})
              /\ game_state' = IF r.exc = "none" THEN r.state ELSE game_state
              /\ now' = now + elapsed
              /\ last' = [op |-> "process_decision",
                          outcome |-> IF r.exc = "none" THEN "ok" ELSE r.exc,
                          approach_id |-> decision.approach_id,
                          decision_type |-> decision.type,
                          approaches |-> scenario.possible_approaches,
                          found |-> TRUE, stored_before |-> db_decisions,
                          declared |-> decision.impacts,
                          difficulty_x2 |-> scenario.difficulty_x2,
                          input |-> game_state, before |-> Deref(game_state, heap),
                          returned |-> r.state, impacts |-> r.impacts,
                          xp_gained |-> r.xp_gained]
    /\ calls' = calls + 1
    /\ UNCHANGED <<db_decisions, history, analyzer, analysis, requests,
                   helper_call, limiter, ai>>

\* mutant: the approach is not checked against the scenario's approaches
_validate_decision_any_approach(decision, scenario, utcnow) ==
    IF scenario.time_constraint # 0
       /\ utcnow - scenario.created_at > scenario.time_constraint THEN FALSE
    ELSE IF ~(decision.parameters \subseteq scenario.required_parameters) THEN FALSE
    ELSE TRUE

\* scenarios.py _validate_decision; the time constraint, None or 0, is not checked
\* when it is falsy
_validate_decision(decision, scenario, utcnow) ==
    IF decision.approach_id \notin scenario.possible_approaches THEN FALSE
    ELSE IF scenario.time_constraint # 0
            /\ utcnow - scenario.created_at > scenario.time_constraint THEN FALSE
    ELSE IF ~(decision.parameters \subseteq scenario.required_parameters) THEN FALSE
    ELSE TRUE

\* scenarios.py submit_decision: the HTTP status, and what process_decision gave when
\* it was called
submit_decision(scenario, state_found, decision, gs, h, utcnow) ==
    LET Reject(status) == [status |-> status, called |-> FALSE,
                           r |-> [exc |-> "none", state |-> gs, heap |-> h,
                                  impacts |-> EmptyDict, xp_gained |-> 0]]
    IN IF scenario = None THEN Reject(404)
       ELSE IF ~state_found THEN Reject(404)
       ELSE IF ~_validate_decision(decision, scenario, utcnow) THEN Reject(400)
       ELSE LET r == process_decision(gs, h, scenario, decision, utcnow)
            IN [status |-> IF r.exc = "none" THEN 200 ELSE 500, called |-> TRUE, r |-> r]

\* one request to POST /{scenario_id}/decisions.  The game state is read from the
\* store and written back only with status 200; the objects of a failed request
\* are dropped with it.
SubmitDecision ==
    /\ calls < MaxCalls
    /\ \E decision \in Decisions, scenario \in Scenarios \cup {None},
          state_found \in BOOLEAN, elapsed \in ElapsedDays :
           \E res \in {submit_decision(scenario, state_found, decision, game_state,
                                       heap, now + elapsed)} :
              /\ heap' = IF res.status = 200
                         THEN Collect(res.r.heap, {game_state, res.r.state})
                         ELSE heap
              /\ game_state' = IF res.status = 200 THEN res.r.state ELSE game_state
              /\ db_decisions' = IF res.status = 200 THEN db_decisions + 1
                                 ELSE db_decisions
              /\ now' = now + elapsed
              /\ last' = [op |-> "submit_decision",
                          outcome |-> IF res.status = 200 THEN "ok"
                                      ELSE IF res.status = 500 THEN res.r.exc
                                      ELSE IF res.status = 400 THEN "HTTP 400"
                                      ELSE "HTTP 404",
                          approach_id |-> decision.approach_id,
                          decision_type |-> decision.type,
                          approaches |-> IF scenario = None THEN {}
                                         ELSE scenario.possible_approaches,
                          found |-> scenario # None /\ state_found,
                          stored_before |-> db_decisions,
                          declared |-> decision.impacts,
                          difficulty_x2 |-> IF scenario = None THEN 0
                                            ELSE scenario.difficulty_x2,
                          input |-> game_state, before |-> Deref(game_state, heap),
                          returned |-> IF res.status = 200 THEN res.r.state
                                       ELSE game_state,
                          impacts |-> res.r.impacts, xp_gained |-> res.r.xp_gained]
    /\ calls' = calls + 1
    /\ UNCHANGED <<history, analyzer, analysis, requests,
                   helper_call, limiter, ai>>

\* a decision is stored (DBService.create_decision) with the current time;
\* get_player_decisions lists the newest first
RecordDecision ==
    /\ Len(history) < MaxHistory
    /\ \E d \in AnalyzerDecisions :
           history' = <<[d EXCEPT !.timestamp = now + 1]>> \o history
    /\ now' = now + 1
    /\ UNCHANGED <<heap, game_state, calls, db_decisions, last, analyzer, analysis,
                   requests,
                   helper_call, limiter, ai>>

\* patterns = pattern_analyzer.analyze_patterns(decisions) on the listed history;
\* the list and the analyzer are left as the call leaves them
AnalyzePatterns ==
    /\ analysis.count < MaxAnalyses
    /\ \E r \in {analyze_patterns(analyzer, history)} :
           /\ history' = r.decisions
           /\ analyzer' = r.self
           /\ analysis' = [count |-> analysis.count + 1,
                           prev |-> analysis.cur,
                           cur |-> [called |-> TRUE, decisions |-> history,
                                    self |-> analyzer, raised |-> r.raised,
                                    caught |-> r.caught, pattern |-> r.pattern,
                                    decisions_after |-> r.decisions,
                                    self_after |-> r.self]]
    /\ UNCHANGED <<heap, game_state, now, calls, db_decisions, last, requests,
                   helper_call, limiter, ai>>

\* self._is_avoidance_behavior(decision), called on its own
IsAvoidanceBehavior ==
    \E decision \in HelperDecisions :
        /\ helper_call' = [op |-> "_is_avoidance_behavior", args |-> <<decision>>,
                           result |-> _is_avoidance_behavior(decision)]
        /\ UNCHANGED <<heap, game_state, now, calls, db_decisions, last, history,
                       analyzer, analysis, requests, limiter, ai>>

\* self._identify_avoided_topics(decisions), called on its own
IdentifyAvoidedTopics ==
    \E decisions \in HelperHistories :
        /\ helper_call' = [op |-> "_identify_avoided_topics", args |-> decisions,
                           result |-> _identify_avoided_topics(decisions)]
        /\ UNCHANGED <<heap, game_state, now, calls, db_decisions, last, history,
                       analyzer, analysis, requests, limiter, ai>>

\* self._calculate_learning_rate(decisions), called on its own; the trend it fitted
\* is kept with the result
CalculateLearningRate ==
    \E decisions \in LearningHistories :
        /\ helper_call' = [op |-> "_calculate_learning_rate", args |-> decisions,
                           result |-> _calculate_learning_rate(decisions),
                           performance_trend |->
                               IF Len(decisions) < 10 THEN << >>
                               ELSE performance_trend(decisions)]
        /\ UNCHANGED <<heap, game_state, now, calls, db_decisions, last, history,
                       analyzer, analysis, requests, limiter, ai>>

\* self._analyze_stakeholder_preferences(decisions), called on its own
AnalyzeStakeholderPreferences ==
    \E decisions \in HelperHistories :
        /\ helper_call' = [op |-> "_analyze_stakeholder_preferences", args |-> decisions,
                           result |-> _analyze_stakeholder_preferences(decisions)]
        /\ UNCHANGED <<heap, game_state, now, calls, db_decisions, last, history,
                       analyzer, analysis, requests, limiter, ai>>

\* self._calculate_bias_score(decisions), called on its own
CalculateBiasScore ==
    \E decisions \in HelperHistories :
        /\ helper_call' = [op |-> "_calculate_bias_score", args |-> decisions,
                           result |-> _calculate_bias_score(decisions)]
        /\ UNCHANGED <<heap, game_state, now, calls, db_decisions, last, history,
                       analyzer, analysis, requests, limiter, ai>>

\* self._calculate_consistency(decisions), called on its own
CalculateConsistency ==
    \E decisions \in HelperHistories :
        /\ helper_call' = [op |-> "_calculate_consistency", args |-> decisions,
                           result |-> _calculate_consistency(decisions)]
        /\ UNCHANGED <<heap, game_state, now, calls, db_decisions, last, history,
                       analyzer, analysis, requests, limiter, ai>>

\* ScenarioPrompt._determine_required_stakeholders(satisfaction_levels)
DetermineRequiredStakeholders ==
    \E satisfaction_levels \in SatisfactionLevels :
        /\ helper_call' = [op |-> "_determine_required_stakeholders",
                           args |-> satisfaction_levels,
                           result |-> [exc |-> "none",
                                       val |-> _determine_required_stakeholders(
                                                   satisfaction_levels)]]
        /\ UNCHANGED <<heap, game_state, now, calls, db_decisions, last, history,
                       analyzer, analysis, requests, limiter, ai>>

\* a middleware with its limit and window, no request seen yet for the key
InitRateLimit ==
    /\ heap = InitialHeap
    /\ game_state = initialize_game_state
    /\ now = 0
    /\ calls = 0
    /\ db_decisions = 0
    /\ last = NoCall
    /\ history = << >>
    /\ analyzer = PatternAnalyzer(DEFAULT_MIN_DECISIONS)
    /\ analysis = [count |-> 0, prev |-> NoAnalysis, cur |-> NoAnalysis]
    /\ requests = [i \in 1..MaxInFlight |-> NoRequest]
    /\ helper_call = NoHelperCall
    /\ \E limit \in Limits, window \in Windows :
           limiter = [NoLimiter EXCEPT !.limit = limit, !.window = window]
    /\ ai = NoAIService

\* RateLimitMiddleware.dispatch for a request of the key at the current second:
\* the check is made and its answer logged; a request not allowed gets
\* RateLimitError, any other is passed on
Dispatch ==
    /\ Len(limiter.log) < MaxChecks
    /\ \E redis \in {"ok", "down", "reply lost"} :
           \E r \in {check_rate_limit(limiter.zset, limiter.expire_at, limiter.limit,
                                      limiter.window, limiter.time, redis)} :
               limiter' = [limiter EXCEPT
                              !.zset = r.zset,
                              !.expire_at = r.expire_at,
                              !.log = Append(@, [time |-> limiter.time, redis |-> redis,
                                                 is_allowed |-> r.is_allowed,
                                                 remaining |-> r.remaining])]
    /\ UNCHANGED <<heap, game_state, now, calls, db_decisions, last, history,
                   analyzer, analysis, requests, helper_call, ai>>

\* int(time.time()) moves on by a second
Second ==
    /\ limiter.time < MaxSeconds
    /\ limiter' = [limiter EXCEPT !.time = @ + 1]
    /\ UNCHANGED <<heap, game_state, now, calls, db_decisions, last, history,
                   analyzer, analysis, requests, helper_call, ai>>

\* AIService(primary_provider, backup_provider, cache_service): with or without a
\* backup provider and a cache service; the cache holds scenarios for some prompts
InitAI ==
    /\ heap = InitialHeap
    /\ game_state = initialize_game_state
    /\ now = 0
    /\ calls = 0
    /\ db_decisions = 0
    /\ last = NoCall
    /\ history = << >>
    /\ analyzer = PatternAnalyzer(DEFAULT_MIN_DECISIONS)
    /\ analysis = [count |-> 0, prev |-> NoAnalysis, cur |-> NoAnalysis]
    /\ requests = [i \in 1..MaxInFlight |-> NoRequest]
    /\ helper_call = NoHelperCall
    /\ limiter = NoLimiter
    /\ \E backup_provider \in BOOLEAN, cache_service \in BOOLEAN, cache \in SUBSET Prompts :
           ai = [NoAIService EXCEPT !.backup_provider = backup_provider,
                                    !.cache_service = cache_service,
                                    !.cache = IF cache_service THEN cache ELSE {}]

\* await ai_service.generate_scenario(prompt)
GenerateScenario ==
    /\ ai.calls < MaxGenerations
    /\ \E prompt \in Prompts, redis \in {"ok", "down"},
          primary \in ProviderOutcomes, backup \in ProviderOutcomes :
           \E r \in {generate_scenario(ai, ai.cache, prompt, redis, primary, backup)} :
               ai' = [ai EXCEPT
                         !.cache = r.cache,
                         !.calls = @ + 1,
                         !.last = [prompt |-> prompt, redis |-> redis,
                                   primary |-> primary, backup |-> backup,
                                   hit |-> ai.cache_service /\ redis = "ok"
                                               /\ prompt \in ai.cache,
                                   trace |-> r.trace, raised |-> r.raised,
                                   returned |-> r.returned]]
    /\ UNCHANGED <<heap, game_state, now, calls, db_decisions, last, history,
                   analyzer, analysis, requests, helper_call, limiter>>

\* the GameState object, with containers of its own, that holds a stored value
Object(v) ==
    [state |-> [v EXCEPT !.stakeholder_satisfaction = "dict1",
                         !.ongoing_events = "list1",
                         !.metadata = "dict2"],
     heap |-> [a \in {"dict1", "list1", "dict2"} |->
                  CASE a = "dict1" -> v.stakeholder_satisfaction
                    [] a = "list1" -> v.ongoing_events
                    [] a = "dict2" -> v.metadata]]

\* request i arrives and awaits db.get_scenario (scenarios.py:107-112).  The requests
\* in flight are for one scenario and carry one decision payload; for an unknown
\* scenario the request ends with HTTP 404.
GetScenario(i) ==
    /\ requests[i].pc = "idle"
    /\ \E decision \in Decisions, scenario \in Scenarios \cup {None} :
           /\ \A j \in DOMAIN requests :
                  requests[j].pc # "idle" =>
                      /\ requests[j].decision = decision
                      /\ requests[j].scenario = scenario
           /\ requests' = [requests EXCEPT
                  ![i] = [@ EXCEPT !.decision = decision, !.scenario = scenario,
                                   !.pc = IF scenario = None THEN "done"
                                          ELSE "get_game_state",
                                   !.status = IF scenario = None THEN 404 ELSE 0]]
    /\ UNCHANGED <<heap, game_state, now, calls, db_decisions, last, history,
                   analyzer, analysis,
                   helper_call, limiter, ai>>

\* request i awaits db.get_game_state (scenarios.py:114-119): it holds the player's
\* game state as the store has it at this moment
GetGameState(i) ==
    /\ requests[i].pc = "get_game_state"
    /\ requests' = [requests EXCEPT
           ![i] = [@ EXCEPT !.game_state = Deref(game_state, heap),
                            !.pc = "process_decision"]]
    /\ UNCHANGED <<heap, game_state, now, calls, db_decisions, last, history,
                   analyzer, analysis,
                   helper_call, limiter, ai>>

\* request i validates the decision, runs process_decision on the state it holds
\* and awaits db.create_decision (scenarios.py:121-141)
CreateDecision(i) ==
    /\ requests[i].pc = "process_decision"
    /\ \E o \in {Object(requests[i].game_state)} :
       \E res \in {submit_decision(requests[i].scenario, TRUE, requests[i].decision,
                                   o.state, o.heap, now)} :
          /\ requests' = [requests EXCEPT
                 ![i] = IF res.status = 200
                        THEN [@ EXCEPT !.updated_state = Deref(res.r.state, res.r.heap),
                                       !.pc = "update_game_state"]
                        ELSE [@ EXCEPT !.status = res.status, !.pc = "done"]]
          /\ db_decisions' = IF res.status = 200 THEN db_decisions + 1
                             ELSE db_decisions
    /\ UNCHANGED <<heap, game_state, now, calls, last, history, analyzer, analysis,
                   helper_call, limiter, ai>>

\* request i awaits db.update_game_state with the state it computed and answers
\* HTTP 200 (scenarios.py:144-163)
UpdateGameState(i) ==
    /\ requests[i].pc = "update_game_state"
    /\ game_state' = Object(requests[i].updated_state).state
    /\ heap' = Object(requests[i].updated_state).heap
    /\ requests' = [requests EXCEPT ![i] = [@ EXCEPT !.status = 200, !.pc = "done"]]
    /\ UNCHANGED <<now, calls, db_decisions, last, history, analyzer, analysis,
                   helper_call, limiter, ai>>

Next == ProcessDecision

NextConcurrent ==
    \E i \in 1..MaxInFlight :
        GetScenario(i) \/ GetGameState(i) \/ CreateDecision(i) \/ UpdateGameState(i)

NextAnalyzer == RecordDecision \/ AnalyzePatterns

NextEndpoint ==
    /\ calls < MaxRequests
    /\ (SubmitDecision \/ ProcessDecision)

NextLoaded ==
    /\ calls < MaxRequests
    /\ ProcessDecision

Spec == Init /\ [][Next]_vars

SpecLoaded == InitLoaded /\ [][NextLoaded]_vars

SpecStored == InitStored /\ [][Next]_vars

SpecEndpoint == InitStored /\ [][NextEndpoint]_vars

SpecAnalyzer == Init /\ [][NextAnalyzer]_vars

SpecConcurrent == InitStored /\ [][NextConcurrent]_vars

\* one direct call of one helper in a behaviour: the helpers keep no state
NextHelpers ==
    /\ helper_call.op = "none"
    /\ \/ IsAvoidanceBehavior
       \/ IdentifyAvoidedTopics
       \/ CalculateLearningRate
       \/ AnalyzeStakeholderPreferences
       \/ CalculateBiasScore
       \/ CalculateConsistency
       \/ DetermineRequiredStakeholders

SpecHelpers == Init /\ [][NextHelpers]_vars

NextRateLimit == Dispatch \/ Second

SpecRateLimit == InitRateLimit /\ [][NextRateLimit]_vars

NextAI == GenerateScenario

SpecAI == InitAI /\ [][NextAI]_vars

(* =============================== claims =============================== *)

\* the state the last call returned and the state it was given, read now
Returned == Deref(last.returned, heap)

Given == Deref(last.input, heap)

Succeeded == last.op = "process_decision" /\ last.outcome = "ok"

Raised == last.op = "process_decision" /\ last.outcome \notin {"none", "ok"}

\* C1: after every successful process_decision, starting from the state of
\* initialize_game_state, every stakeholder satisfaction of the returned state lies
\* in [0, 100] and so does its market_share.
C1_SatisfactionAndShareInRange ==
    Succeeded =>
        /\ \A k \in DOMAIN Returned.stakeholder_satisfaction :
               /\ 0 <= Returned.stakeholder_satisfaction[k]
               /\ Returned.stakeholder_satisfaction[k] <= 100 * SCALE
        /\ 0 <= Returned.market_share
        /\ Returned.market_share <= 100 * SCALE

\* C1 witness: a successful call whose raw result left the range on both counts:
\* employees satisfaction was clamped at 100 and market share was clamped at 100.
C1_Witness ==
    /\ Succeeded
    /\ last.before.stakeholder_satisfaction["employees"]
           + Get(last.impacts, "employees", 0) > 100 * SCALE
    /\ Returned.stakeholder_satisfaction["employees"] = 100 * SCALE
    /\ last.before.market_share + Get(last.impacts, "reputation", 0) \div 20
           > 100 * SCALE
    /\ Returned.market_share = 100 * SCALE

\* C2: a successful process_decision never returns fewer experience points than the
\* state it was given held.
C2_ExperienceNeverDecreases ==
    Succeeded => Returned.experience_points >= last.before.experience_points

\* C2 witness: a successful call whose resolved impacts are all negative or zero and
\* large (a stakeholder impact below -1000), at full difficulty.
C2_Witness ==
    /\ Succeeded
    /\ last.difficulty_x2 = 2
    /\ \A k \in DOMAIN last.impacts : last.impacts[k] <= 0
    /\ \E k \in DOMAIN last.impacts : last.impacts[k] < -1000 * SCALE
    /\ Returned.experience_points > last.before.experience_points

\* C3: a process_decision call leaves current_level as it was or raises it by
\* exactly one.
C3_LevelRisesByAtMostOne ==
    Succeeded =>
        \/ Returned.current_level = last.before.current_level
        \/ Returned.current_level = last.before.current_level + 1

\* C3 witness: one call's award took the experience from below the requirement of
\* the level held past the requirement of the level after it, and the level rose by one.
C3_Witness ==
    /\ Succeeded
    /\ last.before.experience_points < _calculate_xp_needed(last.before.current_level)
    /\ Returned.experience_points >= _calculate_xp_needed(last.before.current_level + 1)
    /\ Returned.current_level = last.before.current_level + 1

InvalidApproach == last.approach_id \notin last.approaches

\* C4 (as claimed): when the chosen approach is not among the scenario's approaches,
\* process_decision fails and the game state reads as before the call.
C4_ProcessDecisionRejectsInvalidApproach ==
    (last.op = "process_decision" /\ InvalidApproach) =>
        /\ last.outcome # "ok"
        /\ Deref(game_state, heap) = last.before

\* C4 (amended): when the chosen approach is not among the approaches of the
\* scenario found, submit_decision answers HTTP 400 from _validate_decision without
\* calling process_decision: the stored game state reads as before the request and
\* no decision is stored.
C4_SubmitDecisionRejectsInvalidApproach ==
    (last.op = "submit_decision" /\ last.found /\ InvalidApproach) =>
        /\ last.outcome = "HTTP 400"
        /\ Deref(game_state, heap) = last.before
        /\ db_decisions = last.stored_before

\* C4 witness: a request with an approach the scenario does not offer was answered
\* HTTP 400 after an earlier request had been processed and stored.
C4_Witness ==
    /\ last.op = "submit_decision"
    /\ last.found
    /\ InvalidApproach
    /\ last.outcome = "HTTP 400"
    /\ db_decisions = 1
    /\ Deref(game_state, heap) # Deref(initialize_game_state, InitialHeap)

EventIdentity(e) == <<e.type, e.stakeholder>>

OngoingEvents == heap[game_state.ongoing_events]

\* C7: ongoing_events never holds two events of the same identity (type and
\* affected stakeholder).
C7_NoDuplicateEvents ==
    \A i, j \in DOMAIN OngoingEvents :
        EventIdentity(OngoingEvents[i]) = EventIdentity(OngoingEvents[j]) => i = j

\* C7 witness: a successful call on a state that already listed the financial
\* crisis and whose returned financial_resources is still below 20% of
\* STARTING_CAPITAL, so the crisis was detected again.
C7_Witness ==
    /\ Succeeded
    /\ FinancialCrisis \in Range(last.before.ongoing_events)
    /\ Returned.financial_resources * 10 < STARTING_CAPITAL * 2
    /\ Cardinality({i \in DOMAIN OngoingEvents : OngoingEvents[i].type = "financial_crisis"}) = 1
    /\ \E i \in DOMAIN OngoingEvents : OngoingEvents[i].type = "stakeholder_crisis"

\* the last analyze_patterns call
Analyzed == analysis.cur

BelowMinimum(c) == c.called /\ Len(c.decisions) < c.self.min_decisions

AtLeastMinimum(c) == c.called /\ Len(c.decisions) >= c.self.min_decisions

\* the fields of the cold-start default, in thousandths: bias 0, confidence 0.5, no
\* avoided topic, every skill 0.3, learning rate, speed and consistency 0.5
IsColdStartDefault(p) ==
    /\ p # NoPattern
    /\ p.bias_score = 0
    /\ p.confidence = 500
    /\ p.avoided_topics = << >>
    /\ \A category \in DOMAIN p.skill_levels : p.skill_levels[category] = 300
    /\ p.learning_rate = 500
    /\ p.decision_speed = 500
    /\ p.consistency_score = 500

C9_AnalysisNeverRaisesOutward ==
    AtLeastMinimum(Analyzed) =>
        /\ Analyzed.raised = "none"
        /\ Analyzed.caught # "none" => IsColdStartDefault(Analyzed.pattern)

\* C9 witness: a call on at least min_decisions decisions in which a division by
\* zero was raised and caught, and the default came back.
C9_Witness ==
    /\ AtLeastMinimum(Analyzed)
    /\ Analyzed.caught = "ZeroDivisionError"
    /\ Analyzed.raised = "none"
    /\ IsColdStartDefault(Analyzed.pattern)

DeclaredKeysKnown ==
    /\ last.op = "process_decision"
    /\ DOMAIN last.declared \ {"financial"} \subseteq DOMAIN last.before.stakeholder_satisfaction

\* raw financial delta x company-size multiplier x (1 + prior market_share/100)
ExpectedFinancial ==
    LET raw == Get(last.declared, "financial", 0)
        size_x10 == CASE last.before.company_size = "small" -> 5
                      [] last.before.company_size = "medium" -> 10
                      [] last.before.company_size = "large" -> 20
        market_x10000 == 10000 + (last.before.market_share * 100) \div SCALE
    IN TruncDiv(TruncDiv(raw * size_x10, 10) * market_x10000, 10000)

\* C11 (as claimed): a decision that declares a 'financial' impact next to stakeholder
\* impacts is processed: the resolved impacts hold 'financial' and 'reputation', the
\* financial entry is raw x size multiplier x (1 + market_share/100) and
\* financial_resources changes by it.
C11_FinancialImpactResolved ==
    (/\ DeclaredKeysKnown
     /\ "financial" \in DOMAIN last.declared
     /\ DOMAIN last.declared # {"financial"}) =>
        /\ last.outcome = "ok"
        /\ {"financial", "reputation"} \subseteq DOMAIN last.impacts
        /\ last.impacts["financial"] = ExpectedFinancial
        /\ Returned.financial_resources
               = last.before.financial_resources + last.impacts["financial"]

\* the three factors of a resolved stakeholder impact, from the state given to the call:
\* satisfaction adjustment and company-size adjustment in tenths
SatisfactionAdjustment_x10(k) ==
    LET satisfaction == last.before.stakeholder_satisfaction[k]
    IN CASE satisfaction < 30 * SCALE -> 12
         [] satisfaction > 70 * SCALE -> 8
         [] OTHER -> 10

SizeAdjustment_x10 ==
    CASE last.before.company_size = "small" -> 12
      [] last.before.company_size = "medium" -> 10
      [] last.before.company_size = "large" -> 8

\* C12: each resolved stakeholder impact is raw x difficulty x satisfaction adjustment
\* (1.2 below 30, 0.8 above 70, 1.0 otherwise, 30 and 70 included) x size adjustment
\* (1.2 small, 1.0 medium, 0.8 large), all read from the state before the decision.
C12_StakeholderImpactFactors ==
    (Succeeded /\ last.op = "process_decision") =>
        \A k \in DOMAIN last.declared \ {"financial", "reputation"} :
            last.impacts[k]
                = last.declared[k] * last.difficulty_x2 * SatisfactionAdjustment_x10(k)
                      * SizeAdjustment_x10 * (SCALE \div 200)

\* a small company with employees at 25, customers at exactly 30 and investors at
\* exactly 70: raw 10 at difficulty 1.0 resolves to 14.4, 12 and 12
C12_Witness ==
    /\ Succeeded /\ last.op = "process_decision"
    /\ last.before.company_size = "small"
    /\ last.difficulty_x2 = 2
    /\ Get(last.before.stakeholder_satisfaction, "employees", 0) = 25 * SCALE
    /\ Get(last.before.stakeholder_satisfaction, "customers", 0) = 30 * SCALE
    /\ Get(last.before.stakeholder_satisfaction, "investors", 0) = 70 * SCALE
    /\ Get(last.declared, "employees", 0) = 10
    /\ Get(last.declared, "customers", 0) = 10
    /\ Get(last.declared, "investors", 0) = 10
    /\ Get(last.impacts, "employees", 0) * 100 = 1440 * SCALE
    /\ Get(last.impacts, "customers", 0) * 100 = 1200 * SCALE
    /\ Get(last.impacts, "investors", 0) * 100 = 1200 * SCALE

\* C13 (as claimed): with financial_resources zero or negative at the market-share
\* update the call does not fail on a division by zero; the financial term counts as
\* zero and market_share moves by 0.5 x 0.1 x reputation impact, clamped to [0, 100].
C13_NoDivisionByZero ==
    (/\ DeclaredKeysKnown
     /\ "financial" \notin DOMAIN last.declared
     /\ last.before.financial_resources <= 0) =>
        /\ last.outcome = "ok"
        /\ Returned.market_share
               = Max(0, Min(100 * SCALE,
                            last.before.market_share
                                + (last.impacts["reputation"] \div 10) \div 2))

\* the requests that were answered HTTP 200
Accepted == {i \in DOMAIN requests : requests[i].status = 200}

\* C14 (as claimed): of the concurrent submit_decision requests for one player and
\* one scenario at most one is accepted (HTTP 200, decision stored, game state
\* updated), and no two requests that stored an update read the same prior game state.
C14_ExactlyOneAccepted ==
    /\ Cardinality(Accepted) <= 1
    /\ \A i, j \in Accepted : i # j => requests[i].game_state # requests[j].game_state

\* the rating band of 0.6 x environment + 0.4 x community satisfaction
Band(satisfaction) ==
    LET score_x10 == 6 * satisfaction["environment"] + 4 * satisfaction["community"]
    IN CASE score_x10 >= 900 * SCALE -> "A+"
         [] score_x10 >= 800 * SCALE -> "A"
         [] score_x10 >= 700 * SCALE -> "B+"
         [] score_x10 >= 600 * SCALE -> "B"
         [] score_x10 >= 500 * SCALE -> "C+"
         [] score_x10 >= 400 * SCALE -> "C"
         [] OTHER -> "D"

\* the environment and community satisfaction are the same before and after the call
SameEnvironmentAndCommunity ==
    \A s \in {"environment", "community"} :
        Returned.stakeholder_satisfaction[s] = last.before.stakeholder_satisfaction[s]

\* C15 (as claimed): in every reachable game state, the one initialize_game_state
\* builds included, sustainability_rating is the band of 0.6 x environment +
\* 0.4 x community; so a decision that leaves both satisfactions unchanged leaves
\* the rating unchanged.
C15_RatingIsBand ==
    /\ Deref(game_state, heap).sustainability_rating
           = Band(Deref(game_state, heap).stakeholder_satisfaction)
    /\ (Succeeded /\ SameEnvironmentAndCommunity) =>
           Returned.sustainability_rating = last.before.sustainability_rating

\* the condition of a crisis event, evaluated in a game state
ConditionHolds(event, state) ==
    CASE event.type = "stakeholder_crisis" ->
             /\ event.stakeholder \in DOMAIN state.stakeholder_satisfaction
             /\ state.stakeholder_satisfaction[event.stakeholder] < 30 * SCALE
      [] event.type = "financial_crisis" ->
             5 * state.financial_resources < STARTING_CAPITAL
      [] event.type = "reputation_crisis" -> state.reputation < 30 * SCALE
      [] OTHER -> FALSE

HasEvent(state, type, stakeholder) ==
    \E e \in Range(state.ongoing_events) : e.type = type /\ e.stakeholder = stakeholder

\* the events the last call added to the list it was given
NewEvents == Range(Returned.ongoing_events) \ Range(last.before.ongoing_events)

\* C16: after a successful process_decision every stakeholder below 30 in the
\* returned state has a stakeholder_crisis event in ongoing_events, financial_crisis
\* is there when the returned financial_resources is below 20% of STARTING_CAPITAL,
\* reputation_crisis when the returned reputation is below 30; and no event is
\* appended for a condition that holds in the prior state only.
C16_EventsFollowReturnedState ==
    Succeeded =>
        /\ \A s \in DOMAIN Returned.stakeholder_satisfaction :
               Returned.stakeholder_satisfaction[s] < 30 * SCALE
                   => HasEvent(Returned, "stakeholder_crisis", s)
        /\ 5 * Returned.financial_resources < STARTING_CAPITAL
               => HasEvent(Returned, "financial_crisis", NoKey)
        /\ Returned.reputation < 30 * SCALE
               => HasEvent(Returned, "reputation_crisis", NoKey)
        /\ \A e \in NewEvents : ConditionHolds(e, Returned)

\* employees stood below 30 before the call, with no event for it, and recovered:
\* no employees crisis was appended, while the environment, pushed below 30 by the
\* same decision, got its event
C16_Witness ==
    /\ Succeeded
    /\ Get(last.before.stakeholder_satisfaction, "employees", 0) < 30 * SCALE
    /\ ~HasEvent(last.before, "stakeholder_crisis", "employees")
    /\ Get(Returned.stakeholder_satisfaction, "employees", 0) >= 30 * SCALE
    /\ ~HasEvent(Returned, "stakeholder_crisis", "employees")
    /\ Get(last.before.stakeholder_satisfaction, "environment", 0) >= 30 * SCALE
    /\ Get(Returned.stakeholder_satisfaction, "environment", 0) < 30 * SCALE
    /\ StakeholderCrisis("environment") \in NewEvents

IsPrefix(p, q) == Len(p) <= Len(q) /\ SubSeq(q, 1, Len(p)) = p

\* C17: ongoing_events is append-only: the list of the state given to a successful
\* process_decision is a prefix of the list of the returned state, also when the
\* condition of a listed event no longer holds.
C17_OngoingEventsAppendOnly ==
    Succeeded => IsPrefix(last.before.ongoing_events, Returned.ongoing_events)

\* the employees crisis was listed before the call, the call brought employees
\* back to 30 or more, and the event is still listed
C17_Witness ==
    /\ Succeeded
    /\ HasEvent(last.before, "stakeholder_crisis", "employees")
    /\ Get(last.before.stakeholder_satisfaction, "employees", 0) < 30 * SCALE
    /\ Get(Returned.stakeholder_satisfaction, "employees", 0) >= 30 * SCALE
    /\ HasEvent(Returned, "stakeholder_crisis", "employees")

\* the impact keys of the last call that are no canonical stakeholder type but a
\* stakeholder the given state tracks
TrackedExtraKeys ==
    (DOMAIN last.declared \cap DOMAIN last.before.stakeholder_satisfaction)
        \ Range(STAKEHOLDER_TYPES)

\* 1.5 x (0.3 employees + 0.3 customers + 0.2 community + 0.1 environment
\* + 0.1 investors) over the resolved impacts
CanonicalReputationImpact ==
    (15 * (3 * Get(last.impacts, "employees", 0) + 3 * Get(last.impacts, "customers", 0)
           + 2 * Get(last.impacts, "community", 0)
           + Get(last.impacts, "environment", 0)
           + Get(last.impacts, "investors", 0))) \div 100

\* C18 (as claimed): an impact whose key is not in STAKEHOLDER_TYPES but is tracked
\* in the state's stakeholder_satisfaction is applied to that satisfaction, clamped
\* to [0, 100], and adds nothing to the weighted sum of the reputation impact.
C18_ExtraKeyApplied ==
    Succeeded =>
        \A k \in TrackedExtraKeys :
            /\ Returned.stakeholder_satisfaction[k]
                   = Max(0, Min(100 * SCALE,
                                last.before.stakeholder_satisfaction[k] + last.impacts[k]))
            /\ last.impacts["reputation"] = CanonicalReputationImpact

\* C18 (amended): an impact whose key is not in STAKEHOLDER_TYPES but is tracked in
\* the state's stakeholder_satisfaction is resolved and returned, yet not applied:
\* that satisfaction stays as it was, and the key adds nothing to the weighted sum
\* of the reputation impact.
C18_ExtraKeyNotApplied ==
    Succeeded =>
        \A k \in TrackedExtraKeys :
            /\ k \in DOMAIN last.impacts
            /\ Returned.stakeholder_satisfaction[k]
                   = last.before.stakeholder_satisfaction[k]
            /\ last.impacts["reputation"] = CanonicalReputationImpact

\* suppliers, tracked at 50, got a resolved impact of 20 next to employees: the
\* suppliers satisfaction is still 50 and the reputation impact is that of the
\* employees impact alone
C18_Witness ==
    /\ Succeeded
    /\ "suppliers" \in TrackedExtraKeys
    /\ Get(last.impacts, "suppliers", 0) = 20 * SCALE
    /\ Get(last.impacts, "employees", 0) = 20 * SCALE
    /\ Get(last.before.stakeholder_satisfaction, "suppliers", 0) = 50 * SCALE
    /\ Get(Returned.stakeholder_satisfaction, "suppliers", 0) = 50 * SCALE
    /\ Get(last.impacts, "reputation", 0) = 9 * SCALE

\* int(1000 x 1.5^(L-1)) for the levels 1 to 8
RequiredExperience == <<1000, 1500, 2250, 3375, 5062, 7593, 11390, 17085>>

\* C19: the level is incremented exactly when the experience total, this decision's
\* award included, is at least int(1000 x 1.5^(L-1)) for the level L held before
\* the call; the requirement is that of the old level, evaluated once.
C19_LevelUpIffRequirementMet ==
    (Succeeded /\ last.before.current_level \in DOMAIN RequiredExperience) =>
        /\ Returned.experience_points = last.before.experience_points + last.xp_gained
        /\ Returned.current_level \in {last.before.current_level,
                                       last.before.current_level + 1}
        /\ Returned.current_level = last.before.current_level + 1
               <=> Returned.experience_points
                       >= RequiredExperience[last.before.current_level]

\* at level 5 with 4962 points an award of 100 gives 5062 = int(5062.5): the total
\* was below the requirement before the award and meets it with the award
C19_Witness ==
    /\ Succeeded
    /\ last.before.current_level = 5
    /\ last.before.experience_points = 4962
    /\ last.xp_gained = 100
    /\ Returned.experience_points = 5062
    /\ Returned.current_level = 6

\* the resolved impacts of the last call that are not zero
NonZeroImpacts == {k \in DOMAIN last.impacts : last.impacts[k] # 0}

\* 100 + 100 x difficulty + 100 x (non-zero impacts / 5) + 0.5 x sum of the positive
\* impacts, truncated; the financial impact is in whole units, the others in 1/SCALE
ExpectedAward ==
    LET InUnits(k) == IF k = "financial" THEN last.impacts[k] * SCALE
                      ELSE last.impacts[k]
        positive == [k \in DOMAIN last.impacts |->
                        IF last.impacts[k] > 0 THEN InUnits(k) ELSE 0]
        total == 100 * SCALE + 50 * last.difficulty_x2 * SCALE
                     + (100 * Cardinality(NonZeroImpacts) * SCALE) \div 5
                     + SumOver(positive, DOMAIN positive) \div 2
    IN TruncDiv(total, SCALE)

\* C20 (as claimed): the award is trunc(100 + 100 x difficulty + 100 x (non-zero
\* impacts / number of canonical stakeholder types) + 0.5 x sum of positive impacts),
\* the ratio never exceeds 1, and the award is at least 100.
C20_AwardFormulaRatioAtMostOne ==
    Succeeded =>
        /\ last.xp_gained = ExpectedAward
        /\ Cardinality(NonZeroImpacts) <= Len(STAKEHOLDER_TYPES)
        /\ last.xp_gained >= 100

\* C20 (amended): the award is trunc(100 + 100 x difficulty + 100 x (non-zero
\* entries of the resolved impacts / number of canonical stakeholder types) + 0.5 x
\* sum of positive impacts) and at least 100; the count takes in the 'reputation' and
\* 'financial' entries and any non-canonical key, so the ratio is not bounded by 1.
C20_AwardFormula ==
    Succeeded =>
        /\ last.xp_gained = ExpectedAward
        /\ NonZeroImpacts \subseteq DOMAIN last.declared \cup {"reputation", "financial"}
        /\ last.xp_gained >= 100

\* all five stakeholders and the reputation have a non-zero resolved impact: the
\* ratio is 6/5 and the award holds 120 for it
C20_Witness ==
    /\ Succeeded
    /\ last.difficulty_x2 = 2
    /\ Range(STAKEHOLDER_TYPES) \cup {"reputation"} = NonZeroImpacts
    /\ last.xp_gained = ExpectedAward
    /\ last.xp_gained >= 100 + 100 + 120

\* the memory lists of a game state, by stakeholder
Memories(state) == Get(state.metadata, "stakeholder_memories", EmptyDict)

\* the record process_decision writes for stakeholder s at the time of the call
ThisDecision(s) ==
    [decision_type |-> last.decision_type, impact |-> last.impacts[s], timestamp |-> now]

EndsWithThisDecision(s) ==
    /\ s \in DOMAIN Memories(Returned)
    /\ Memories(Returned)[s] # << >>
    /\ Memories(Returned)[s][Len(Memories(Returned)[s])] = ThisDecision(s)

\* no record of the list is 5 or more days old now, when the decision is processed
Fresh5(list) == \A i \in DOMAIN list : now - list[i].timestamp < 5

\* C21 (as claimed): after a successful process_decision the memory list of every
\* stakeholder in the resolved impacts ends with a record of this decision, and no
\* memory list of the returned state, those of stakeholders the decision did not
\* affect included, holds a record 5 or more days old.
C21_NoStaleMemoryAnywhere ==
    Succeeded =>
        /\ \A s \in DOMAIN last.impacts \cap DOMAIN Returned.stakeholder_satisfaction :
               EndsWithThisDecision(s)
        /\ \A s \in DOMAIN Memories(Returned) : Fresh5(Memories(Returned)[s])

\* C21 (amended): the memory list of every canonical stakeholder in the resolved
\* impacts ends with a record of this decision and holds no record 5 or more days
\* old; every other memory list is left exactly as it was.
C21_AffectedListsFresh ==
    Succeeded =>
        /\ \A s \in DOMAIN last.impacts \cap Range(STAKEHOLDER_TYPES) :
               EndsWithThisDecision(s) /\ Fresh5(Memories(Returned)[s])
        /\ \A s \in DOMAIN Memories(Returned) \ DOMAIN last.impacts :
               /\ s \in DOMAIN Memories(last.before)
               /\ Memories(Returned)[s] = Memories(last.before)[s]

\* the decision affected customers only, five days after the earlier records: the
\* old customers record is gone, the employees list still holds its old record
C21_Witness ==
    /\ Succeeded
    /\ "customers" \in DOMAIN last.impacts
    /\ "employees" \notin DOMAIN last.impacts
    /\ Len(Get(Memories(last.before), "customers", << >>)) = 1
    /\ ~Fresh5(Get(Memories(last.before), "customers", << >>))
    /\ Len(Get(Memories(Returned), "customers", << >>)) = 1
    /\ EndsWithThisDecision("customers")
    /\ Get(Memories(Returned), "employees", << >>) # << >>
    /\ ~Fresh5(Get(Memories(Returned), "employees", << >>))

\* C22 (as claimed): the cold-start default gives preference 0.5 to each of the five
\* canonical stakeholder types, none missing, and 0.3 to each of the four skill
\* categories.
C22_DefaultCoversCanonicalStakeholders ==
    BelowMinimum(Analyzed) =>
        /\ DOMAIN Analyzed.pattern.stakeholder_preferences = Range(STAKEHOLDER_TYPES)
        /\ \A s \in Range(STAKEHOLDER_TYPES) :
               Get(Analyzed.pattern.stakeholder_preferences, s, 0) = 500
        /\ Cardinality(DOMAIN Analyzed.pattern.skill_levels) = 4
        /\ \A c \in DOMAIN Analyzed.pattern.skill_levels :
               Analyzed.pattern.skill_levels[c] = 300

\* a Decision with positive time_spent, affected stakeholders and impacts
WellFormed(d) ==
    /\ d.class = "Decision"
    /\ d.time_spent > 0
    /\ d.stakeholders_affected # {}
    /\ DOMAIN d.impacts # {}

\* C23 (as claimed): for a history of at least min_decisions well-formed decisions
\* analyze_patterns returns the profile computed from the history; nothing is
\* caught and the cold-start default is not substituted.
C23_WellFormedHistoryIsAnalyzed ==
    (/\ AtLeastMinimum(Analyzed)
     /\ \A i \in DOMAIN Analyzed.decisions : WellFormed(Analyzed.decisions[i])) =>
        /\ Analyzed.caught = "none"
        /\ Analyzed.pattern = LearningPattern(Fields(Analyzed.self, Analyzed.decisions))

\* the arguments and the result of the last direct call of a helper
CalledOn == helper_call.args

Result == helper_call.result

\* the claim's reading of avoidance: the mean of the absolute values is below 10
RECURSIVE SumAbs(_, _)
SumAbs(f, keys) ==
    IF keys = {} THEN 0
    ELSE LET k == CHOOSE x \in keys : TRUE
         IN Abs(f[k]) + SumAbs(f, keys \ {k})

AvoidanceAsClaimed(decision) ==
    /\ decision.time_spent < 15
    /\ DOMAIN decision.impacts # {}
    /\ SumAbs(decision.impacts, DOMAIN decision.impacts)
           < 10 * Cardinality(DOMAIN decision.impacts)

\* C24: a decision counts as avoidance behaviour if and only if time_spent < 15 and
\* the mean of the absolute values of its impacts is below 10, so that +50 and -50
\* are not avoidance; a scenario category is in avoided_topics exactly when more
\* than 0.7 of its decisions are avoidance behaviour
C24_AvoidanceIsMeanOfAbsolutes ==
    /\ (helper_call.op = "_is_avoidance_behavior" /\ ~IsRow(CalledOn[1]))
           => (Result.val <=> AvoidanceAsClaimed(CalledOn[1]))
    /\ (helper_call.op = "_identify_avoided_topics" /\ Result.exc = "none")
           => \A i \in DOMAIN CalledOn :
                  LET topic == CalledOn[i].scenario_type
                      Of == {j \in DOMAIN CalledOn : CalledOn[j].scenario_type = topic}
                      Avoided == {j \in Of : AvoidanceAsClaimed(CalledOn[j])}
                  IN topic \in Range(Result.val)
                         <=> 10 * Cardinality(Avoided) > 7 * Cardinality(Of)

\* C25: _calculate_learning_rate returns 0.5 for fewer than 10 decisions; for
\* n >= 10 decisions the trend holds one performance value per window of 5
\* consecutive decisions in timestamp order, n - 4 windows in all, the last of them
\* the window that ends at the most recent decision
C25_TrendCoversEveryWindow ==
    helper_call.op = "_calculate_learning_rate" =>
        LET n == Len(CalledOn)
            by_time == sorted(CalledOn)
        IN IF n < 10 THEN Result = [exc |-> "none", val |-> 500]
           ELSE /\ Len(helper_call.performance_trend) = n - 4
                /\ \A i \in 1..(n - 4) :
                       helper_call.performance_trend[i]
                           = _calculate_window_performance(SubSeq(by_time, i, i + 4))

\* C26: every scalar the analyzer computes stays in its documented range for any
\* input values: each value of stakeholder_preferences and consistency_score lies
\* in [0, 1] and bias_score lies in [-1, 1], also when recorded impacts lie
\* outside [-100, 100]
C26_ScalarsInDocumentedRange ==
    Result.exc = "none" =>
        /\ helper_call.op = "_analyze_stakeholder_preferences"
               => \A s \in DOMAIN Result.val : Result.val[s] \in 0..1000
        /\ helper_call.op = "_calculate_bias_score"
               => ~Result.nan /\ Result.val \in -1000..1000
        /\ helper_call.op = "_calculate_consistency"
               => ~Result.nan /\ Result.val \in 0..1000

\* the stakeholders of the mapping the last call was given whose satisfaction is
\* below 60, and the smallest satisfaction in it
BelowSixty == {CalledOn[i][1] : i \in {j \in DOMAIN CalledOn : CalledOn[j][2] < 600}}

LowestSatisfaction ==
    CHOOSE v \in {CalledOn[i][2] : i \in DOMAIN CalledOn} :
        \A i \in DOMAIN CalledOn : v <= CalledOn[i][2]

\* C27: _determine_required_stakeholders returns exactly the stakeholders whose
\* satisfaction is strictly below 60; when none qualifies and the mapping is not
\* empty it returns exactly one stakeholder, one of minimum satisfaction; the
\* result is empty only for an empty mapping
C27_RequiredStakeholders ==
    helper_call.op = "_determine_required_stakeholders" =>
        /\ BelowSixty # {} =>
               /\ Range(Result.val) = BelowSixty
               /\ Len(Result.val) = Cardinality(BelowSixty)
        /\ (BelowSixty = {} /\ CalledOn # << >>) =>
               /\ Len(Result.val) = 1
               /\ \E i \in DOMAIN CalledOn :
                      CalledOn[i] = <<Result.val[1], LowestSatisfaction>>
        /\ Result.val = << >> <=> CalledOn = << >>

\* nobody is below 60, two stakeholders share the minimum of exactly 60, and one
\* stakeholder was returned
C27_Witness ==
    /\ helper_call.op = "_determine_required_stakeholders"
    /\ BelowSixty = {}
    /\ Cardinality({i \in DOMAIN CalledOn : CalledOn[i][2] = 600}) = 2
    /\ Len(Result.val) = 1

\* C28: in every state reached from initialize_game_state by process_decision
\* calls, the level is 1 or the experience is at least the requirement of the
\* previous level, int(1000 x 1.5^(current_level - 2))
C28_LevelBackedByExperience ==
    \/ game_state.current_level = 1
    \/ /\ game_state.current_level - 1 \in DOMAIN RequiredExperience
       /\ game_state.experience_points
              >= RequiredExperience[game_state.current_level - 1]

\* a call has raised the level from 2 to 3, and the experience covers the 1500
\* points that level 2 required
C28_Witness ==
    /\ Succeeded
    /\ last.before.current_level = 2
    /\ game_state.current_level = 3
    /\ game_state.experience_points >= 1500

\* the requests of the log that were allowed and whose second lies in the window
\* of limiter.window seconds that starts at second t
AllowedInWindow(t) ==
    {i \in DOMAIN limiter.log :
         /\ limiter.log[i].is_allowed
         /\ limiter.log[i].time \in t..(t + limiter.window - 1)}

\* C29: with Redis working, at most `limit` requests of a key are allowed among
\* those whose timestamps fall inside one window of `window` seconds, also when
\* several of them arrive within the same second
C29_AtMostLimitPerWindow ==
    (\A i \in DOMAIN limiter.log : limiter.log[i].redis = "ok") =>
        \A t \in 0..MaxSeconds : Cardinality(AllowedInWindow(t)) <= limiter.limit

\* the positions of a call in the trace of the last generate_scenario
CallsAt(call) == {i \in DOMAIN ai.last.trace : ai.last.trace[i] = call}

\* a provider was asked and its response parsed
PrimarySucceeded == CallsAt("primary_provider") # {} /\ ai.last.primary = "ok"

BackupSucceeded == CallsAt("backup_provider") # {} /\ ai.last.backup = "ok"

\* C30: on a cache hit no provider is called; otherwise the primary provider is
\* called first, the backup provider only after the primary call or the parsing of
\* its response failed, RuntimeError is raised only when both failed, and a
\* response is stored in the cache only after one provider succeeded
C30_ProviderOrder ==
    ai.calls > 0 =>
        /\ ai.last.hit => (CallsAt("primary_provider") = {} /\ CallsAt("backup_provider") = {})
        /\ (~ai.last.hit /\ ai.last.raised # "ConnectionError") =>
               /\ Cardinality(CallsAt("primary_provider")) = 1
               /\ \A b \in CallsAt("backup_provider") : \A p \in CallsAt("primary_provider") : p < b
        /\ CallsAt("backup_provider") # {} =>
               /\ CallsAt("primary_provider") # {}
               /\ ai.last.primary \in {"call fails", "parse fails"}
        /\ ai.last.raised = "RuntimeError" =>
               /\ CallsAt("primary_provider") # {} /\ ai.last.primary # "ok"
               /\ CallsAt("backup_provider") # {} /\ ai.last.backup # "ok"
        /\ \A s \in CallsAt("store_scenario") :
               /\ PrimarySucceeded \/ BackupSucceeded
               /\ \A i \in CallsAt("primary_provider") \cup CallsAt("backup_provider")
                           \cup CallsAt("_parse_response") : i < s

\* the cache had no scenario for the prompt, the primary provider's response did
\* not parse, the backup provider succeeded and its response went to the cache
C30_Witness ==
    /\ ai.calls > 0
    /\ ai.cache_service
    /\ ~ai.last.hit
    /\ ai.last.primary = "parse fails"
    /\ ai.last.returned = "backup"
    /\ ai.last.trace = <<"get_scenario", "primary_provider", "_parse_response",
                         "backup_provider", "_parse_response", "store_scenario">>

====
